---- MODULE Spec2Model ----
(***************************************************************************)
(* Layout reconstruction engine of Odusco Convert: row grouping, table     *)
(* region detection, column boundaries, cell assignment, header and type   *)
(* inference (lib/tableExtractor.ts); the document outline of              *)
(* lib/pdfParser.ts (line grouping, line classification, element           *)
(* clean-up); the state of the hooks usePdfConversion and                  *)
(* useWordConversion.                                                      *)
(*                                                                         *)
(* Representation.  A JavaScript string is a sequence of one-character     *)
(* strings (<<"a", " ", "1">>), so that trim, case mapping, parseFloat and *)
(* the regular expressions are computed character by character.  A         *)
(* JavaScript number is an integer; a ratio the code computes by division  *)
(* is a pair <<numerator, denominator>> with a positive denominator.       *)
(* null / undefined of an optional list-valued field is the empty          *)
(* sequence; an optional row (headerRow) is a sequence of length 0 or 1.   *)
(***************************************************************************)
EXTENDS Integers, Sequences, FiniteSets, TLC

VARIABLES
  textItems,      \* the fragments handed to extractTables / groupIntoRows / assignItemsToColumns
  colBoundaries,  \* the column boundaries: the result of detectColumnBoundariesForRegion, the argument of assignItemsToColumns
  gridRows,       \* the string[][] handed to detectHeader
  colValues,      \* the column values handed to detectColumnType
  repeat,         \* how many times the column values were duplicated
  pc,             \* "input" while the caller builds the input, "done" once the function returned
  tables,         \* the result of extractTables
  pageRows,       \* the result of groupIntoRows
  rowCells,       \* the result of assignItemsToColumns
  header,         \* the result of detectHeader
  colType,        \* the result of detectColumnType
  structure,      \* the result of extractDocumentStructure
  request,        \* the arguments of the convert call in progress
  state,          \* the ConversionState of usePdfConversion
  wordState,      \* the WordConversionState of useWordConversion
  pageRegions,    \* the result of detectTableRegions
  currencySymbol, \* the result of detectCurrencySymbol (<<>> is null)
  metadata,       \* the TableMetadata returned by analyzeTableMetadata
  maxFont,        \* the maxFontSize handed to classifyLine
  docElements,    \* the elements pushed by extractDocumentStructure, the argument of cleanDocumentElements
  cleanedElements, \* the result of cleanDocumentElements
  pageImages      \* the image elements extractImagesFromPage returns, for all pages

vars == <<textItems, colBoundaries, gridRows, colValues, repeat, pc, tables, pageRows, rowCells, header, colType,
          structure, request, state, wordState, pageRegions, currencySymbol, metadata,
          maxFont, docElements, cleanedElements, pageImages>>

----------------------------------------------------------------------------
(* Program constants                                                       *)

ROW_TOLERANCE == 5

(* mutant: a single row is enough for a table *)
MIN_TABLE_ROWS_One == 2 - 1

MIN_TABLE_ROWS == 2
MIN_TABLE_COLS == 2
MIN_COL_GAP == 15
CLUSTER_GAP == 10
COLUMN_TOLERANCE == 10
DEFAULT_FONT_SIZE == 12
LARGE_FONT_SIZE == 14
SHORT_TEXT_LENGTH == 50

----------------------------------------------------------------------------
(* Numbers and sequences                                                   *)

Abs(n) == IF n < 0 THEN -n ELSE n

Range(s) == {s[i] : i \in 1..Len(s)}

RECURSIVE SumSeq(_)
SumSeq(s) == IF Len(s) = 0 THEN 0 ELSE Head(s) + SumSeq(Tail(s))

RECURSIVE MaxSeq(_)
MaxSeq(s) == IF Len(s) = 1 THEN s[1]
             ELSE LET m == MaxSeq(Tail(s)) IN IF s[1] >= m THEN s[1] ELSE m

MapSeq(s, F(_)) == [i \in 1..Len(s) |-> F(s[i])]

(* Array.prototype.sort with the comparator (a, b) => Key(a) - Key(b): a   *)
(* stable sort, so elements with equal keys keep their input order.        *)
StableSortBy(s, Key(_)) ==
  LET n == Len(s)
      rank(i) == 1 + Cardinality({j \in 1..n :
                       \/ Key(s[j]) < Key(s[i])
                       \/ (Key(s[j]) = Key(s[i]) /\ j < i)})
      at == [r \in 1..n |-> CHOOSE i \in 1..n : rank(i) = r]
  IN [r \in 1..n |-> s[at[r]]]

SortNumbers(s) == StableSortBy(s, LAMBDA v : v)

(* the elements of a finite set of integers in ascending order *)
SetToSortedSeq(S) ==
  [r \in 1..Cardinality(S) |-> CHOOSE v \in S : Cardinality({w \in S : w < v}) = r - 1]


----------------------------------------------------------------------------
(* Strings                                                                 *)

WhiteSpace == {" ", "\t", "\n", "\r"}

Digits == {"0", "1", "2", "3", "4", "5", "6", "7", "8", "9"}

LowerCase == <<"a", "b", "c", "d", "e", "f", "g", "h", "i", "j", "k", "l", "m",
               "n", "o", "p", "q", "r", "s", "t", "u", "v", "w", "x", "y", "z">>

UpperCase == <<"A", "B", "C", "D", "E", "F", "G", "H", "I", "J", "K", "L", "M",
               "N", "O", "P", "Q", "R", "S", "T", "U", "V", "W", "X", "Y", "Z">>

RECURSIVE TrimStart(_)
TrimStart(s) == IF Len(s) > 0 /\ Head(s) \in WhiteSpace THEN TrimStart(Tail(s)) ELSE s

RECURSIVE TrimEnd(_)
TrimEnd(s) == IF Len(s) > 0 /\ s[Len(s)] \in WhiteSpace
              THEN TrimEnd(SubSeq(s, 1, Len(s) - 1)) ELSE s

(* String.prototype.trim *)
Trim(s) == TrimEnd(TrimStart(s))

(* a string is truthy when it is not empty *)
IsBlank(s) == Len(Trim(s)) = 0

(* Array.prototype.join(' ') *)
RECURSIVE JoinSpace(_)
JoinSpace(strs) ==
  IF Len(strs) = 0 THEN <<>>
  ELSE IF Len(strs) = 1 THEN strs[1]
       ELSE strs[1] \o <<" ">> \o JoinSpace(Tail(strs))


(* Characters outside ASCII are written by code point.  The currency       *)
(* glyphs of the source file are stored as the three- and two-character    *)
(* sequences below (the bytes of the naira, euro and pound signs read in   *)
(* another code page), and the regular expressions hold them that way.     *)
ExtLowerCase == <<"U+00F4", "U+00E9", "U+017E", "U+010D", "U+00FA">>

ExtUpperCase == <<"U+00D4", "U+00C9", "U+017D", "U+010C", "U+00DA">>

NairaGlyph == <<"U+00D4", "U+00E9", "U+017D">>

EuroGlyph == <<"U+00D4", "U+00E9", "U+010C">>

PoundGlyph == <<"U+252C", "U+00FA">>

DollarGlyph == <<"$">>

AllLower == LowerCase \o ExtLowerCase

AllUpper == UpperCase \o ExtUpperCase

toUpperCaseChar(c) ==
  IF \E i \in 1..Len(AllLower) : AllLower[i] = c
  THEN AllUpper[CHOOSE i \in 1..Len(AllLower) : AllLower[i] = c]
  ELSE c

toLowerCaseChar(c) ==
  IF \E i \in 1..Len(AllUpper) : AllUpper[i] = c
  THEN AllLower[CHOOSE i \in 1..Len(AllUpper) : AllUpper[i] = c]
  ELSE c

(* String.prototype.toUpperCase / toLowerCase *)
toUpperCase(s) == [i \in 1..Len(s) |-> toUpperCaseChar(s[i])]

toLowerCase(s) == [i \in 1..Len(s) |-> toLowerCaseChar(s[i])]

(* String.prototype.includes *)
Includes(s, sub) ==
  \E i \in 0..(Len(s) - Len(sub)) : \A j \in 1..Len(sub) : s[i + j] = sub[j]

(* a regular expression with the i flag that is a literal word *)
IncludesIgnoreCase(s, sub) == Includes(toUpperCase(s), toUpperCase(sub))

(* s.replace(/[class]/g, '') *)
RemoveChars(s, class) == SelectSeq(s, LAMBDA c : c \notin class)

(* An anchored regular expression ^ seg1 seg2 ... $ whose segments are     *)
(* character classes with a repetition range: Seg(class, min, max).        *)
Unbounded == 1000

Seg(class, min, max) == [class |-> class, min |-> min, max |-> max]

RECURSIVE MatchSegs(_, _)
MatchSegs(s, segs) ==
  IF Len(segs) = 0 THEN Len(s) = 0
  ELSE LET seg == Head(segs)
           most == IF seg.max < Len(s) THEN seg.max ELSE Len(s)
       IN \E k \in seg.min..most :
            /\ \A i \in 1..k : s[i] \in seg.class
            /\ MatchSegs(SubSeq(s, k + 1, Len(s)), Tail(segs))

(* \w *)
WordChars == Range(LowerCase) \cup Range(UpperCase) \cup Digits \cup {"_"}

(* parseFloat: leading white space, an optional sign, then Infinity or a   *)
(* decimal literal; anything else is NaN.  A decimal literal is finite     *)
(* unless its magnitude exceeds the double range, which takes an exponent  *)
(* part of three digits or more than 308 digits.                           *)
parseFloatKind(s) ==
  LET t == TrimStart(s)
      u == IF Len(t) > 0 /\ t[1] \in {"+", "-"} THEN Tail(t) ELSE t
      infinity == <<"I", "n", "f", "i", "n", "i", "t", "y">>
  IN IF Len(u) >= 8 /\ SubSeq(u, 1, 8) = infinity THEN "Infinity"
     ELSE IF Len(u) >= 1 /\ u[1] \in Digits THEN "finite"
     ELSE IF Len(u) >= 2 /\ u[1] = "." /\ u[2] \in Digits THEN "finite"
     ELSE "NaN"

----------------------------------------------------------------------------
(* Row Grouper                                                             *)

(* the forEach of groupIntoRows: currentRow is always the row pushed last; *)
(* avgHeight is the running weighted average, kept as <<num, den>>.        *)
RECURSIVE groupIntoRowsLoop(_, _, _)
groupIntoRowsLoop(sortedItems, i, rows) ==
  IF i > Len(sortedItems) THEN rows
  ELSE LET item == sortedItems[i]
           n == Len(rows)
       IN IF n = 0 \/ Abs(item.y - rows[n].y) > ROW_TOLERANCE
          THEN groupIntoRowsLoop(sortedItems, i + 1,
                 Append(rows, [y |-> item.y, items |-> <<item>>,
                               avgHeight |-> <<item.height, 1>>]))
          ELSE LET k == Len(rows[n].items) + 1
                   grown == [rows[n] EXCEPT
                               !.items = Append(@, item),
                               !.avgHeight = <<@[1] * (k - 1) + item.height * @[2], @[2] * k>>]
               IN groupIntoRowsLoop(sortedItems, i + 1, [rows EXCEPT ![n] = grown])

(* mutant: the fragments of a row stay in the order they were added *)
sortRowItems_Skip(rows) == rows

(* lines 423-426: the fragments of each row are sorted by x *)
sortRowItems(rows) ==
  [r \in 1..Len(rows) |-> [rows[r] EXCEPT !.items = StableSortBy(@, LAMBDA it : it.x)]]

(* mutant: the fragments are grouped in the order given *)
groupIntoRows_Unsorted(items) == sortRowItems(groupIntoRowsLoop(items, 1, <<>>))

groupIntoRows(items) ==
  sortRowItems(groupIntoRowsLoop(StableSortBy(items, LAMBDA it : it.y), 1, <<>>))

----------------------------------------------------------------------------
(* Table Region Detector                                                   *)

getGapsBetweenItems(items) ==
  IF Len(items) < 2 THEN <<>>
  ELSE LET sorted == StableSortBy(items, LAMBDA it : it.x)
       IN [i \in 1..(Len(sorted) - 1) |->
             sorted[i + 1].x - (sorted[i].x + sorted[i].width)]

(* Math.round(x / 5) * 5 : Math.round rounds half up *)
RoundTo5(x) == ((2 * x + 5) \div 10) * 5

(* <<totalMatches, totalChecks>>; the code returns their quotient, or 0    *)
(* when totalChecks is 0.                                                  *)
calculateAlignmentWithNeighbors(row, neighbors) ==
  LET rowX(i) == RoundTo5(row.items[i].x)
      aligned(nb, i) == \E j \in 1..Len(neighbors[nb].items) :
                           Abs(RoundTo5(neighbors[nb].items[j].x) - rowX(i)) <= 10
      pairs == (1..Len(neighbors)) \X (1..Len(row.items))
  IN <<Cardinality({p \in pairs : aligned(p[1], p[2])}), Cardinality(pairs)>>

(* /^\d+[\d,.\-\/]*$/ *)
IsNumberOrDateToken(text) ==
  /\ Len(text) >= 1
  /\ text[1] \in Digits
  /\ \A i \in 1..Len(text) : text[i] \in Digits \cup {",", ".", "-", "/"}

(* /^\d{4,}$/ *)
IsAccountNumber(text) ==
  Len(text) >= 4 /\ \A i \in 1..Len(text) : text[i] \in Digits

itemFontSize(item) == IF item.fontSize = 0 THEN DEFAULT_FONT_SIZE ELSE item.fontSize

(* mutant: the penalty of a title-like row is added to the score *)
scoreRowAsTableRow_PenaltyAdded(row, allRows, rowIndex) ==
  LET n == Len(row.items)
      gaps == getGapsBetweenItems(row.items)
      hasConsistentGaps == Len(gaps) > 0 /\ \E g \in 1..Len(gaps) : gaps[g] >= MIN_COL_GAP
      neighborRows == (IF rowIndex - 1 >= 1 THEN <<allRows[rowIndex - 1]>> ELSE <<>>)
                      \o (IF rowIndex + 1 <= Len(allRows) THEN <<allRows[rowIndex + 1]>> ELSE <<>>)
      alignment == IF Len(neighborRows) > 0
                   THEN calculateAlignmentWithNeighbors(row, neighborRows)
                   ELSE <<0, 0>>
      fontSum == SumSeq(MapSeq(row.items, itemFontSize))
      isSingleCenteredText == n = 1
      penalised == isSingleCenteredText \/ fontSum > LARGE_FONT_SIZE * n
      hasDataContent == \E i \in 1..n :
                           LET text == Trim(row.items[i].str)
                           IN \/ IsNumberOrDateToken(text)
                              \/ IsAccountNumber(text)
                              \/ Len(text) < SHORT_TEXT_LENGTH
      tenths == (IF n >= 2 THEN 3 ELSE 0) + (IF n >= 3 THEN 2 ELSE 0)
                + (IF hasConsistentGaps THEN 3 ELSE 0)
                + (IF penalised THEN 3 ELSE 0)
                + (IF hasDataContent THEN 1 ELSE 0)
      den == IF alignment[2] > 0 THEN 10 * alignment[2] ELSE 10
      num == IF alignment[2] > 0 THEN tenths * alignment[2] + 2 * alignment[1] ELSE tenths
  IN IF num < 0 THEN <<0, den>> ELSE IF num > den THEN <<den, den>> ELSE <<num, den>>

(* The score as <<num, den>>, clamped to [0, 1].  The terms are counted in *)
(* tenths; the alignment term is 0.2 * matches / checks.                   *)
scoreRowAsTableRow(row, allRows, rowIndex) ==
  LET n == Len(row.items)
      gaps == getGapsBetweenItems(row.items)
      hasConsistentGaps == Len(gaps) > 0 /\ \E g \in 1..Len(gaps) : gaps[g] >= MIN_COL_GAP
      neighborRows == (IF rowIndex - 1 >= 1 THEN <<allRows[rowIndex - 1]>> ELSE <<>>)
                      \o (IF rowIndex + 1 <= Len(allRows) THEN <<allRows[rowIndex + 1]>> ELSE <<>>)
      alignment == IF Len(neighborRows) > 0
                   THEN calculateAlignmentWithNeighbors(row, neighborRows)
                   ELSE <<0, 0>>
      fontSum == SumSeq(MapSeq(row.items, itemFontSize))
      isSingleCenteredText == n = 1
      penalised == isSingleCenteredText \/ fontSum > LARGE_FONT_SIZE * n
      hasDataContent == \E i \in 1..n :
                           LET text == Trim(row.items[i].str)
                           IN \/ IsNumberOrDateToken(text)
                              \/ IsAccountNumber(text)
                              \/ Len(text) < SHORT_TEXT_LENGTH
      tenths == (IF n >= 2 THEN 3 ELSE 0) + (IF n >= 3 THEN 2 ELSE 0)
                + (IF hasConsistentGaps THEN 3 ELSE 0)
                - (IF penalised THEN 3 ELSE 0)
                + (IF hasDataContent THEN 1 ELSE 0)
      den == IF alignment[2] > 0 THEN 10 * alignment[2] ELSE 10
      num == IF alignment[2] > 0 THEN tenths * alignment[2] + 2 * alignment[1] ELSE tenths
  IN IF num < 0 THEN <<0, den>> ELSE IF num > den THEN <<den, den>> ELSE <<num, den>>

(* rowScore >= 0.5 *)
IsTableLike(score) == 2 * score[1] >= score[2]

(* The loop of detectTableRegions.  currentRegion is a sequence of length  *)
(* 0 (null) or 1.                                                          *)
RECURSIVE detectTableRegionsLoop(_, _, _, _, _)
detectTableRegionsLoop(rows, i, regions, currentRegion, potentialLetterhead) ==
  IF i > Len(rows)
  THEN IF Len(currentRegion) = 1 /\ Len(currentRegion[1].rows) >= MIN_TABLE_ROWS
       THEN Append(regions, currentRegion[1])
       ELSE regions
  ELSE LET row == rows[i]
           rowScore == scoreRowAsTableRow(row, rows, i)
       IN IF IsTableLike(rowScore)
          THEN IF Len(currentRegion) = 0
               THEN detectTableRegionsLoop(rows, i + 1, regions,
                      <<[startY |-> row.y, endY |-> row.y, rows |-> <<row>>,
                         letterheadRows |-> potentialLetterhead]>>,
                      <<>>)
               ELSE detectTableRegionsLoop(rows, i + 1, regions,
                      <<[currentRegion[1] EXCEPT !.endY = row.y,
                                                 !.rows = Append(@, row)]>>,
                      potentialLetterhead)
          ELSE IF Len(currentRegion) = 1 /\ Len(currentRegion[1].rows) >= MIN_TABLE_ROWS
               THEN detectTableRegionsLoop(rows, i + 1,
                      Append(regions, currentRegion[1]), <<>>, <<>>)
               ELSE IF Len(currentRegion) = 0
                    THEN detectTableRegionsLoop(rows, i + 1, regions, <<>>,
                           Append(potentialLetterhead, row))
                    ELSE detectTableRegionsLoop(rows, i + 1, regions, <<>>,
                           potentialLetterhead)

(* mutant: a page of exactly MIN_TABLE_ROWS rows is skipped *)
detectTableRegions_SkipTwoRows(rows) ==
  IF Len(rows) <= MIN_TABLE_ROWS THEN <<>>
  ELSE detectTableRegionsLoop(rows, 1, <<>>, <<>>, <<>>)

detectTableRegions(rows) ==
  IF Len(rows) < MIN_TABLE_ROWS THEN <<>>
  ELSE detectTableRegionsLoop(rows, 1, <<>>, <<>>, <<>>)

----------------------------------------------------------------------------
(* Column Boundary Detector                                                *)

(* mutant: positions are clustered with the column gap instead of 10 *)
clusterXPositions_ColGap(positions) ==
  IF Len(positions) = 0 THEN <<>>
  ELSE LET sorted == SortNumbers(positions)
           starts == {i \in 1..Len(sorted) :
                        i = 1 \/ sorted[i] - sorted[i - 1] > MIN_COL_GAP}
       IN MapSeq(SetToSortedSeq(starts), LAMBDA i : sorted[i])

(* the clusters of the sorted positions are cut where the gap to the       *)
(* previous position exceeds 10; Math.min of a cluster is its first value. *)
clusterXPositions(positions) ==
  IF Len(positions) = 0 THEN <<>>
  ELSE LET sorted == SortNumbers(positions)
           starts == {i \in 1..Len(sorted) :
                        i = 1 \/ sorted[i] - sorted[i - 1] > CLUSTER_GAP}
       IN MapSeq(SetToSortedSeq(starts), LAMBDA i : sorted[i])

RECURSIVE ConcatAll(_)
ConcatAll(seqs) == IF Len(seqs) = 0 THEN <<>> ELSE Head(seqs) \o ConcatAll(Tail(seqs))

(* mutant: only the fragments of the first row are collected *)
detectColumnBoundariesForRegion_FirstRow(rows) ==
  IF Len(rows) = 0 \/ Len(rows[1].items) = 0 THEN <<>>
  ELSE SortNumbers(clusterXPositions(MapSeq(rows[1].items, LAMBDA it : it.x)))

detectColumnBoundariesForRegion(rows) ==
  LET positions == ConcatAll(MapSeq(rows, LAMBDA row : MapSeq(row.items, LAMBDA it : it.x)))
  IN IF Len(positions) = 0 THEN <<>>
     ELSE SortNumbers(clusterXPositions(positions))

----------------------------------------------------------------------------
(* Cell Assigner                                                           *)

(* the first loop of the forEach body: the first i whose range holds the   *)
(* item, or 0 for "no exact match" (-1 in the code).                       *)
(* boundaries[i + 1] || Infinity: the range has no upper end when there is *)
(* no next boundary or the next boundary is 0.                             *)
exactColumn(x, boundaries) ==
  LET inRange(i) ==
        /\ x >= boundaries[i] - COLUMN_TOLERANCE
        /\ \/ i + 1 > Len(boundaries)
           \/ boundaries[i + 1] = 0
           \/ x < boundaries[i + 1] - COLUMN_TOLERANCE
      hits == {i \in 1..Len(boundaries) : inRange(i)}
  IN IF hits = {} THEN 0 ELSE CHOOSE i \in hits : \A j \in hits : i <= j

(* the second loop: the first column at minimal distance *)
closestColumn(x, boundaries) ==
  LET dist(i) == Abs(x - boundaries[i])
      best == {i \in 1..Len(boundaries) : \A j \in 1..Len(boundaries) : dist(i) <= dist(j)}
  IN IF best = {} THEN 0 ELSE CHOOSE i \in best : \A j \in best : i <= j

columnOf(x, boundaries) ==
  IF exactColumn(x, boundaries) # 0 THEN exactColumn(x, boundaries)
  ELSE closestColumn(x, boundaries)

RECURSIVE assignLoop(_, _, _, _)
assignLoop(sortedItems, k, boundaries, cells) ==
  IF k > Len(sortedItems) THEN cells
  ELSE LET item == sortedItems[k]
           colIndex == columnOf(item.x, boundaries)
       IN IF colIndex >= 1 /\ colIndex <= Len(cells)
          THEN assignLoop(sortedItems, k + 1, boundaries,
                 [cells EXCEPT ![colIndex] =
                    IF Len(@) > 0 THEN @ \o <<" ">> \o item.str ELSE item.str])
          ELSE assignLoop(sortedItems, k + 1, boundaries, cells)

(* mutant: the cells are returned as accumulated, without the final trim *)
assignItemsToColumns_Untrimmed(items, boundaries) ==
  assignLoop(StableSortBy(items, LAMBDA it : it.x), 1, boundaries,
             [i \in 1..Len(boundaries) |-> <<>>])

assignItemsToColumns(items, boundaries) ==
  LET sortedItems == StableSortBy(items, LAMBDA it : it.x)
      cells == assignLoop(sortedItems, 1, boundaries, [i \in 1..Len(boundaries) |-> <<>>])
  IN MapSeq(cells, Trim)

(* row[col] || '' *)
cellOr(row, col) == IF col <= Len(row) THEN row[col] ELSE <<>>

(* mutant: no column is dropped *)
dropEmptyColumns_KeepAll(rows) == rows

dropEmptyColumns(rows) ==
  IF Len(rows) = 0 THEN rows
  ELSE LET numCols == MaxSeq(MapSeq(rows, Len))
           keep == {col \in 1..numCols : \E r \in 1..Len(rows) : ~IsBlank(cellOr(rows[r], col))}
           columnsToKeep == SetToSortedSeq(keep)
       IN MapSeq(rows, LAMBDA row : MapSeq(columnsToKeep, LAMBDA col : cellOr(row, col)))

----------------------------------------------------------------------------
(* Header and Type Inference                                               *)

(* the class [$...,\s%] of getNumericRatio and isHeaderLike (no i flag) *)
NumericNoise == {"$", ",", "%"} \cup WhiteSpace
                \cup Range(NairaGlyph) \cup Range(EuroGlyph) \cup Range(PoundGlyph)

(* <<numeric cells, non-empty cells>>; 0 when there is no non-empty cell *)
getNumericRatio(row) ==
  LET nonEmptyCells == SelectSeq(row, LAMBDA c : ~IsBlank(c))
      numericCells == SelectSeq(nonEmptyCells,
                        LAMBDA cell : parseFloatKind(RemoveChars(cell, NumericNoise)) = "finite")
  IN IF Len(nonEmptyCells) = 0 THEN <<0, 1>>
     ELSE <<Len(numericCells), Len(nonEmptyCells)>>

(* mutant: the capital test is turned around (starts with a lower-case or *)
(* caseless character)                                                    *)
isHeaderLike_LowerStart(text) ==
  IF IsBlank(text) THEN FALSE
  ELSE /\ Len(text) <= 40
       /\ text[1] = toLowerCaseChar(text[1])
       /\ parseFloatKind(RemoveChars(text, NumericNoise)) = "NaN"

isHeaderLike(text) ==
  IF IsBlank(text) THEN FALSE
  ELSE /\ Len(text) <= 40
       /\ \/ text[1] = toUpperCaseChar(text[1])
          \/ text = toUpperCase(text)
       /\ parseFloatKind(RemoveChars(text, NumericNoise)) = "NaN"

headerKeywords ==
  << <<"i","d">>, <<"n","a","m","e">>, <<"d","a","t","e">>, <<"a","m","o","u","n","t">>,
     <<"t","o","t","a","l">>, <<"d","e","s","c","r","i","p","t","i","o","n">>,
     <<"t","y","p","e">>, <<"s","t","a","t","u","s">>, <<"n","u","m","b","e","r">>,
     <<"n","o">>, <<"q","t","y">>, <<"q","u","a","n","t","i","t","y">>,
     <<"p","r","i","c","e">>, <<"v","a","l","u","e">>, <<"c","o","d","e">>,
     <<"r","e","f">>, <<"a","c","c","o","u","n","t">>, <<"r","a","t","e">>,
     <<"c","u","s","t","o","m","e","r">>, <<"i","n","t">> >>

(* a / b + c / d *)
RatioAdd(p, q) == <<p[1] * q[2] + q[1] * p[2], p[2] * q[2]>>

RECURSIVE RatioSum(_)
RatioSum(ratios) == IF Len(ratios) = 0 THEN <<0, 1>>
                    ELSE RatioAdd(Head(ratios), RatioSum(Tail(ratios)))

(* Check 1: firstRowNumericRatio < 0.3 && avgRestNumericRatio > 0.3 *)
headerCheck1(firstRow, restRows) ==
  LET first == getNumericRatio(firstRow)
      restSum == RatioSum(MapSeq(restRows, getNumericRatio))
  IN /\ 10 * first[1] < 3 * first[2]
     /\ 10 * restSum[1] > 3 * restSum[2] * Len(restRows)

(* Check 2: headerLikeCount > firstRow.length * 0.5 *)
headerCheck2(firstRow) ==
  2 * Len(SelectSeq(firstRow, isHeaderLike)) > Len(firstRow)

(* Check 3: firstRowEmptyCount === 0 && avgEmptyInRest > 0 *)
headerCheck3(firstRow, restRows) ==
  /\ Len(SelectSeq(firstRow, IsBlank)) = 0
  /\ SumSeq(MapSeq(restRows, LAMBDA row : Len(SelectSeq(row, IsBlank)))) > 0

(* Check 4: hasHeaderKeywords *)
headerCheck4(firstRow) ==
  \E c \in 1..Len(firstRow) : \E k \in 1..Len(headerKeywords) :
     Includes(toLowerCase(firstRow[c]), headerKeywords[k])

(* headerScore counted in halves: 2 -> 4, 1.5 -> 3, 0.5 -> 1, 1 -> 2 *)
headerScore(rows) ==
  LET firstRow == rows[1]
      restRows == Tail(rows)
  IN (IF headerCheck1(firstRow, restRows) THEN 4 ELSE 0)
     + (IF headerCheck2(firstRow) THEN 3 ELSE 0)
     + (IF headerCheck3(firstRow, restRows) THEN 1 ELSE 0)
     + (IF headerCheck4(firstRow) THEN 2 ELSE 0)

(* mutant: isHeader requires a score above 2 *)
detectHeader_AboveTwo(rows) ==
  IF Len(rows) < 2 THEN [isHeader |-> FALSE, confidence |-> <<0, 1>>]
  ELSE LET halves == headerScore(rows)
       IN [isHeader |-> halves > 4,
           confidence |-> IF halves > 10 THEN <<10, 10>> ELSE <<halves, 10>>]

detectHeader(rows) ==
  IF Len(rows) < 2 THEN [isHeader |-> FALSE, confidence |-> <<0, 1>>]
  ELSE LET halves == headerScore(rows)
       IN [isHeader |-> halves >= 4,
           confidence |-> IF halves > 10 THEN <<10, 10>> ELSE <<halves, 10>>]

(* [glyphs] of detectColumnType, with the i flag *)
CurrencyChars == {"$"} \cup Range(NairaGlyph) \cup Range(EuroGlyph) \cup Range(PoundGlyph)
                 \cup {toLowerCaseChar(c) : c \in Range(NairaGlyph) \cup Range(EuroGlyph) \cup Range(PoundGlyph)}
                 \cup {toUpperCaseChar(c) : c \in Range(NairaGlyph) \cup Range(EuroGlyph) \cup Range(PoundGlyph)}

(* [\d,]+\.?\d* *)
NumberBody == <<Seg(Digits \cup {","}, 1, Unbounded), Seg({"."}, 0, 1), Seg(Digits, 0, Unbounded)>>

currencyPattern(value) ==
  \/ MatchSegs(value, <<Seg(CurrencyChars, 1, 1)>> \o NumberBody)
  \/ MatchSegs(value, NumberBody \o <<Seg(WhiteSpace, 0, Unbounded), Seg(CurrencyChars, 0, 1)>>)
  \/ MatchSegs(value, <<Seg({"="}, 1, 1), Seg({"N", "n"}, 1, 1), Seg({"="}, 1, 1),
                        Seg(WhiteSpace, 0, Unbounded)>> \o NumberBody)

(* /[glyphs]|NGN|USD|EUR|GBP|=N=/i *)
hasCurrencyMark(value) ==
  \/ \E i \in 1..Len(value) : value[i] \in CurrencyChars
  \/ IncludesIgnoreCase(value, <<"N", "G", "N">>)
  \/ IncludesIgnoreCase(value, <<"U", "S", "D">>)
  \/ IncludesIgnoreCase(value, <<"E", "U", "R">>)
  \/ IncludesIgnoreCase(value, <<"G", "B", "P">>)
  \/ IncludesIgnoreCase(value, <<"=", "N", "=">>)

DateSeparators == {"/", "-"}

(* mutant: the year-first pattern (2025-12-24) is not a date *)
isDateValue_NoYearFirst(value) ==
  \/ MatchSegs(value, <<Seg(Digits, 1, 2), Seg(DateSeparators, 1, 1), Seg(WordChars, 3, 3),
                        Seg(DateSeparators, 1, 1), Seg(Digits, 2, 4)>>)
  \/ MatchSegs(value, <<Seg(Digits, 1, 2), Seg(DateSeparators, 1, 1), Seg(Digits, 1, 2),
                        Seg(DateSeparators, 1, 1), Seg(Digits, 2, 4)>>)

isDateValue(value) ==
  \/ MatchSegs(value, <<Seg(Digits, 1, 2), Seg(DateSeparators, 1, 1), Seg(WordChars, 3, 3),
                        Seg(DateSeparators, 1, 1), Seg(Digits, 2, 4)>>)
  \/ MatchSegs(value, <<Seg(Digits, 1, 2), Seg(DateSeparators, 1, 1), Seg(Digits, 1, 2),
                        Seg(DateSeparators, 1, 1), Seg(Digits, 2, 4)>>)
  \/ MatchSegs(value, <<Seg(Digits, 4, 4), Seg(DateSeparators, 1, 1), Seg(Digits, 1, 2),
                        Seg(DateSeparators, 1, 1), Seg(Digits, 1, 2)>>)

(* /^-?[\d,]+\.?\d*%?$/ on value.replace(/\s/g, '') *)
isNumberValue(value) ==
  MatchSegs(RemoveChars(value, WhiteSpace),
            <<Seg({"-"}, 0, 1)>> \o NumberBody \o <<Seg({"%"}, 0, 1)>>)

(* the branch of the forEach of detectColumnType that counts the value *)
valueCategory(value) ==
  IF currencyPattern(value) \/ hasCurrencyMark(value) THEN "currency"
  ELSE IF isDateValue(value) THEN "date"
  ELSE IF isNumberValue(value) THEN "number"
  ELSE "text"

(* mutant: a category wins when it counts at least half of the values but *)
(* one, a test that does not scale with the number of values               *)
typeOfCategories_AllButOne(categories) ==
  LET total == Len(categories)
      count(cat) == Cardinality({i \in 1..total : categories[i] = cat})
  IN IF 2 * count("currency") >= total - 1 THEN "currency"
     ELSE IF 2 * count("date") >= total - 1 THEN "date"
     ELSE IF 2 * count("number") >= total - 1 THEN "number"
     ELSE IF 2 * count("text") >= total - 1 THEN "text"
     ELSE "mixed"

(* the type of a column whose non-empty values fall in the given           *)
(* categories: the first of currency, date, number, text that counts at    *)
(* least half of them (lines 568-575)                                      *)
typeOfCategories(categories) ==
  LET total == Len(categories)
      count(cat) == Cardinality({i \in 1..total : categories[i] = cat})
  IN IF 2 * count("currency") >= total THEN "currency"
     ELSE IF 2 * count("date") >= total THEN "date"
     ELSE IF 2 * count("number") >= total THEN "number"
     ELSE IF 2 * count("text") >= total THEN "text"
     ELSE "mixed"

nonEmptyValues(values) == SelectSeq(values, LAMBDA v : ~IsBlank(v))

(* mutant: blank values are counted with the others *)
detectColumnType_CountBlanks(values) ==
  typeOfCategories(MapSeq(values, valueCategory))

detectColumnType(values) ==
  IF Len(nonEmptyValues(values)) = 0 THEN "text"
  ELSE typeOfCategories(MapSeq(nonEmptyValues(values), valueCategory))

(* the patterns of detectCurrencySymbol in their order, each with the      *)
(* symbol it is normalised to                                              *)
currencyPatterns ==
  << [symbol |-> NairaGlyph,  ignoreCase |-> FALSE, pattern |-> NairaGlyph],
     [symbol |-> NairaGlyph,  ignoreCase |-> TRUE,  pattern |-> <<"N", "G", "N">>],
     [symbol |-> NairaGlyph,  ignoreCase |-> FALSE, pattern |-> <<"=", "N", "=">>],
     [symbol |-> DollarGlyph, ignoreCase |-> FALSE, pattern |-> <<"$">>],
     [symbol |-> DollarGlyph, ignoreCase |-> TRUE,  pattern |-> <<"U", "S", "D">>],
     [symbol |-> EuroGlyph,   ignoreCase |-> FALSE, pattern |-> EuroGlyph],
     [symbol |-> EuroGlyph,   ignoreCase |-> TRUE,  pattern |-> <<"E", "U", "R">>],
     [symbol |-> PoundGlyph,  ignoreCase |-> FALSE, pattern |-> PoundGlyph],
     [symbol |-> PoundGlyph,  ignoreCase |-> TRUE,  pattern |-> <<"G", "B", "P">>] >>

(* mutant: the symbol of the matching pattern is returned as written, the  *)
(* codes and the =N= marker included                                       *)
detectCurrencySymbol_Raw(values) ==
  LET matches(p) == \E v \in 1..Len(values) :
                       IF currencyPatterns[p].ignoreCase
                       THEN IncludesIgnoreCase(values[v], currencyPatterns[p].pattern)
                       ELSE Includes(values[v], currencyPatterns[p].pattern)
      hits == {p \in 1..Len(currencyPatterns) : matches(p)}
  IN IF hits = {} THEN <<>>
     ELSE currencyPatterns[CHOOSE p \in hits : \A q \in hits : p <= q].pattern

(* the normalised symbol of the first pattern some value matches; <<>> is  *)
(* null                                                                    *)
detectCurrencySymbol(values) ==
  LET matches(p) == \E v \in 1..Len(values) :
                       IF currencyPatterns[p].ignoreCase
                       THEN IncludesIgnoreCase(values[v], currencyPatterns[p].pattern)
                       ELSE Includes(values[v], currencyPatterns[p].pattern)
      hits == {p \in 1..Len(currencyPatterns) : matches(p)}
  IN IF hits = {} THEN <<>>
     ELSE currencyPatterns[CHOOSE p \in hits : \A q \in hits : p <= q].symbol

(* the symbol pushed for a column of the given type (lines 590-594) *)
columnCurrencySymbol(type, columnValues) ==
  IF type = "currency" THEN detectCurrencySymbol(columnValues) ELSE <<>>

columnValuesOf(dataRows, col) == MapSeq(dataRows, LAMBDA row : cellOr(row, col))

metadataOfTypes(rows, hasHeader, dataRows, numCols, columnTypes) ==
  [hasDetectedHeader |-> hasHeader,
   columnTypes |-> columnTypes,
   columnCurrencySymbols |->
       [col \in 1..numCols |-> columnCurrencySymbol(columnTypes[col], columnValuesOf(dataRows, col))],
   totalRows |-> Len(rows),
   totalCols |-> numCols]

metadataOfData(rows, hasHeader, dataRows, numCols) ==
  metadataOfTypes(rows, hasHeader, dataRows, numCols,
                  [col \in 1..numCols |-> detectColumnType(columnValuesOf(dataRows, col))])

analyzeTableMetadata(rows, hasHeader) ==
  metadataOfData(rows, hasHeader, IF hasHeader THEN Tail(rows) ELSE rows, MaxSeq(MapSeq(rows, Len)))

----------------------------------------------------------------------------
(* extractTables                                                           *)

(* the keys of pageGroups in insertion order: the pages in the order of    *)
(* their first fragment in textItems                                       *)
pageOrder(items) ==
  LET firstAt(p) == CHOOSE i \in 1..Len(items) :
                       items[i].page = p /\ \A j \in 1..(i - 1) : items[j].page # p
      pages == {items[i].page : i \in 1..Len(items)}
      firsts == SetToSortedSeq({firstAt(p) : p \in pages})
  IN MapSeq(firsts, LAMBDA i : items[i].page)

pageItems(items, pageNum) == SelectSeq(items, LAMBDA it : it.page = pageNum)

(* the lines of text of the rows held as letterhead *)
letterheadOf(region) ==
  LET lineOf(row) == Trim(JoinSpace(MapSeq(StableSortBy(row.items, LAMBDA it : it.x),
                                           LAMBDA it : it.str)))
  IN SelectSeq(MapSeq(region.letterheadRows, lineOf), LAMBDA text : Len(text) > 0)

(* lines 83-100 and 642-651: the table pushed for the cleaned rows *)
tableOfHeader(cleanedRows, headerInfo, pageNum, tableIndex, letterhead) ==
  [rows |-> cleanedRows,
   source |-> [page |-> pageNum, table |-> tableIndex],
   pageNumber |-> pageNum,
   metadata |-> analyzeTableMetadata(cleanedRows, headerInfo.isHeader),
   headerRow |-> IF headerInfo.isHeader THEN <<cleanedRows[1]>> ELSE <<>>,
   letterhead |-> letterhead]

(* lines 81-101 and 641-652: a table is pushed when the cleaned rows have  *)
(* enough columns; the result is a sequence of length 0 or 1               *)
tableOfCleanedRows(cleanedRows, pageNum, tableIndex, letterhead) ==
  IF Len(cleanedRows) > 0 /\ Len(cleanedRows[1]) >= MIN_TABLE_COLS
  THEN <<tableOfHeader(cleanedRows, detectHeader(cleanedRows), pageNum, tableIndex, letterhead)>>
  ELSE <<>>

(* lines 75-102: tableIndex is incremented when enough rows are left *)
regionOfFilteredRows(region, filteredRows, pageNum, tableIndex) ==
  IF Len(filteredRows) >= MIN_TABLE_ROWS
  THEN [tableIndex |-> tableIndex + 1,
        tables |-> tableOfCleanedRows(dropEmptyColumns(filteredRows), pageNum,
                                      tableIndex + 1, letterheadOf(region))]
  ELSE [tableIndex |-> tableIndex, tables |-> <<>>]

(* lines 66-73: the grid of the region, without its mostly-empty rows *)
regionOfBoundaries(region, columnBoundaries, pageNum, tableIndex) ==
  IF Len(columnBoundaries) >= MIN_TABLE_COLS
  THEN regionOfFilteredRows(region,
         SelectSeq(MapSeq(region.rows, LAMBDA row : assignItemsToColumns(row.items, columnBoundaries)),
                   LAMBDA row : Len(SelectSeq(row, LAMBDA cell : ~IsBlank(cell))) >= 1),
         pageNum, tableIndex)
  ELSE [tableIndex |-> tableIndex, tables |-> <<>>]

(* the body of tableRegions.forEach for one region: the value of           *)
(* tableIndex after it and the table pushed, as a sequence of length 0 or 1 *)
regionTable(region, pageNum, tableIndex) ==
  regionOfBoundaries(region, detectColumnBoundariesForRegion(region.rows), pageNum, tableIndex)

accumulate(acc, done) ==
  [tableIndex |-> done.tableIndex, tables |-> acc.tables \o done.tables]

RECURSIVE regionsLoop(_, _, _, _)
regionsLoop(regions, k, pageNum, acc) ==
  IF k > Len(regions) THEN acc
  ELSE regionsLoop(regions, k + 1, pageNum,
                   accumulate(acc, regionTable(regions[k], pageNum, acc.tableIndex)))

RECURSIVE pagesLoop(_, _, _, _)
pagesLoop(items, pages, k, acc) ==
  IF k > Len(pages) THEN acc
  ELSE pagesLoop(items, pages, k + 1,
                 regionsLoop(detectTableRegions(groupIntoRows(pageItems(items, pages[k]))),
                             1, pages[k], acc))

(* the tables of the region path (lines 48-105) *)
extractRegionTables(items) ==
  pagesLoop(items, pageOrder(items), 1, [tableIndex |-> 0, tables |-> <<>>]).tables

RECURSIVE splitLoop(_, _, _, _)
splitLoop(sorted, i, columns, currentColumn) ==
  IF i > Len(sorted) THEN Append(columns, Trim(currentColumn))
  ELSE LET gap == sorted[i].x - (sorted[i - 1].x + sorted[i - 1].width)
       IN IF gap >= MIN_COL_GAP
          THEN splitLoop(sorted, i + 1, Append(columns, Trim(currentColumn)), sorted[i].str)
          ELSE splitLoop(sorted, i + 1, columns, currentColumn \o <<" ">> \o sorted[i].str)

splitRowByGaps(items) ==
  IF Len(items) = 0 THEN <<>>
  ELSE IF Len(items) = 1 THEN <<items[1].str>>
  ELSE LET sorted == StableSortBy(items, LAMBDA it : it.x)
       IN splitLoop(sorted, 2, <<>>, sorted[1].str)

(* lines 620-629: the rows with two fragments or more, split at their gaps *)
alternativeTableRows(rows) ==
  MapSeq(SelectSeq(rows,
           LAMBDA row : \/ \E g \in 1..Len(getGapsBetweenItems(row.items)) :
                              getGapsBetweenItems(row.items)[g] >= MIN_COL_GAP
                        \/ Len(row.items) >= 2),
         LAMBDA row : splitRowByGaps(row.items))

(* lines 633-637: every row padded to the widest *)
normalizeRows(tableRows, maxCols) ==
  MapSeq(tableRows, LAMBDA row : row \o [c \in 1..(maxCols - Len(row)) |-> <<>>])

(* mutant: the page needs no minimum number of multi-fragment rows *)
alternativeTableOfRows_AnyRows(tableRows, pageNum) ==
  IF Len(tableRows) >= 1
  THEN tableOfCleanedRows(dropEmptyColumns(normalizeRows(tableRows, MaxSeq(MapSeq(tableRows, Len)))),
                          pageNum, 0, <<>>)
  ELSE <<>>

(* lines 631-653: the table of one page on the alternative path, as a      *)
(* sequence of length 0 or 1; its source names the page only (table 0) and *)
(* it has no letterhead                                                    *)
alternativeTableOfRows(tableRows, pageNum) ==
  IF Len(tableRows) >= MIN_TABLE_ROWS
  THEN tableOfCleanedRows(dropEmptyColumns(normalizeRows(tableRows, MaxSeq(MapSeq(tableRows, Len)))),
                          pageNum, 0, <<>>)
  ELSE <<>>

alternativePageTable(items, pageNum) ==
  alternativeTableOfRows(alternativeTableRows(groupIntoRows(pageItems(items, pageNum))), pageNum)

extractTablesAlternative(items) ==
  ConcatAll(MapSeq(pageOrder(items), LAMBDA pageNum : alternativePageTable(items, pageNum)))

(* lines 107-115 *)
tablesOrAlternative(regionTables, items) ==
  IF Len(regionTables) = 0 THEN extractTablesAlternative(items) ELSE regionTables

extractTables(items) == tablesOrAlternative(extractRegionTables(items), items)

----------------------------------------------------------------------------
(* Inputs                                                                  *)

MaxLines == 4

Pages == {1, 2}

LineHeight == 10

(* the y of the lines of text a page can hold *)
LineY == <<0, 20, 40>>

Fragment(str, x, width, fontSize) ==
  [str |-> str, x |-> x, width |-> width, fontSize |-> fontSize]

(* the fragments of a line of text, in the order the decoder lists them *)
LineKinds == {"cells", "prose", "sparse"}

LineFragments(kind) ==
  CASE kind = "cells"  -> <<Fragment(<<"b", " ">>, 100, 40, 12), Fragment(<<"a">>, 0, 40, 12)>>
    [] kind = "prose"  -> <<Fragment(<<"p", " ", "q">>, 0, 200, 12)>>
    [] kind = "sparse" -> <<Fragment(<<"a">>, 0, 40, 0), Fragment(<<" ">>, 100, 40, 0),
                            Fragment(<<"7">>, 200, 40, 0)>>

TextLine(kind, page, y) ==
  MapSeq(LineFragments(kind),
         LAMBDA f : [str |-> f.str, x |-> f.x, y |-> y, width |-> f.width,
                     height |-> LineHeight, page |-> page, fontSize |-> f.fontSize])

(* initialState of usePdfConversion; null is the empty sequence, a value    *)
(* that is present a sequence of length 1                                  *)
initialState ==
  [status |-> "idle", progress |-> 0, result |-> <<>>, error |-> <<>>,
   fileName |-> <<>>, outputFormat |-> "excel"]

(* initialState of useWordConversion *)
wordInitialState ==
  [status |-> "idle", progress |-> 0, documentStructure |-> <<>>, error |-> <<>>,
   fileName |-> <<>>]

(* no convert call was made; at tells how far a call got: "awaiting",     *)
(* "checked" once it tested its result for content, "threw" when a step   *)
(* it awaited failed                                                      *)
NoRequest == [hook |-> "none", mode |-> "auto", outputFormat |-> "excel", at |-> "none"]

(* no DocumentStructure was extracted *)
NoStructure == [title |-> <<>>, elements |-> <<>>, pages |-> 0]

NoInput == /\ colBoundaries = <<>>
           /\ gridRows = <<>>
           /\ colValues = <<>>
           /\ repeat = 0
           /\ request = NoRequest
           /\ maxFont = 0
           /\ docElements = <<>>
           /\ pageImages = <<>>

NoMetadata ==
  [hasDetectedHeader |-> FALSE, columnTypes |-> <<>>, columnCurrencySymbols |-> <<>>,
   totalRows |-> 0, totalCols |-> 0]

NoOutput == /\ tables = <<>>
            /\ pageRows = <<>>
            /\ rowCells = <<>>
            /\ header = [isHeader |-> FALSE, confidence |-> <<0, 1>>]
            /\ colType = "text"
            /\ structure = NoStructure
            /\ state = initialState
            /\ wordState = wordInitialState
            /\ pageRegions = <<>>
            /\ currencySymbol = <<>>
            /\ metadata = NoMetadata
            /\ cleanedElements = <<>>

----------------------------------------------------------------------------
(* extractTables on a document the caller lists line by line, the pages in *)
(* any order                                                               *)

Init ==
  /\ textItems = <<>>
  /\ pc = "input"
  /\ NoInput
  /\ NoOutput

LinesOn(page) == Cardinality({textItems[i].y : i \in {j \in 1..Len(textItems) : textItems[j].page = page}})

LineCount == LinesOn(1) + LinesOn(2)

(* the y of the next line of a page: page 1 is listed from the top down,   *)
(* page 2 from the bottom up                                               *)
NextLineY(page) ==
  IF page = 1 THEN LineY[LinesOn(page) + 1] ELSE LineY[Len(LineY) - LinesOn(page)]

PushLine(kind, page) ==
  /\ pc = "input"
  /\ LineCount < MaxLines
  /\ LinesOn(page) < Len(LineY)
  /\ textItems' = textItems \o TextLine(kind, page, NextLineY(page))
  /\ UNCHANGED <<colBoundaries, gridRows, colValues, repeat, pc, tables, pageRows, rowCells, header, colType, structure, request, state, wordState, pageRegions, currencySymbol, metadata, maxFont, docElements, cleanedElements, pageImages>>

ExtractTables ==
  /\ pc = "input"
  /\ tables' = extractTables(textItems)
  /\ pc' = "done"
  /\ UNCHANGED <<textItems, colBoundaries, gridRows, colValues, repeat, pageRows, rowCells, header, colType, structure, request, state, wordState, pageRegions, currencySymbol, metadata, maxFont, docElements, cleanedElements, pageImages>>

Next ==
  \/ \E kind \in LineKinds, page \in Pages : PushLine(kind, page)
  \/ ExtractTables

Spec == Init /\ [][Next]_vars

TypeOK == pc \in {"input", "done"}

----------------------------------------------------------------------------
(* Properties of extractTables                                             *)

PagesOf(items) == {items[i].page : i \in 1..Len(items)}

PageRows(items, page) == groupIntoRows(pageItems(items, page))

(* the table-region detector finds no region on any page *)
NoRegionOnAnyPage(items) ==
  \A page \in PagesOf(items) : Len(detectTableRegions(PageRows(items, page))) = 0

(* the rows of a page that hold two fragments or more *)
MultiFragmentRows(items, page) ==
  SelectSeq(PageRows(items, page), LAMBDA row : Len(row.items) >= 2)

(* a grid fed back: every cell is one fragment at x = column index * step  *)
SyntheticRow(row, step) ==
  [y |-> 0,
   items |-> [c \in 1..Len(row) |->
                [str |-> row[c], x |-> (c - 1) * step, y |-> 0, width |-> 0,
                 height |-> LineHeight, page |-> 1, fontSize |-> 0]],
   avgHeight |-> <<LineHeight, 1>>]

RoundTrip(tableRows, step) ==
  LET fed == MapSeq(tableRows, LAMBDA row : SyntheticRow(row, step))
      columnBoundaries == detectColumnBoundariesForRegion(fed)
  IN MapSeq(fed, LAMBDA row : assignItemsToColumns(row.items, columnBoundaries))

(* the spacings of the synthetic fragments the round trip is checked for *)
RoundTripSteps == {11, 20}

(* C2, as stated: the grid of every returned table is reproduced by the    *)
(* column boundary detector and the cell assigner when each cell is a      *)
(* fragment at x = its column index.                                       *)
C2_RoundTripAtColumnIndex ==
  pc = "done" =>
    \A t \in 1..Len(tables) : RoundTrip(tables[t].rows, 1) = tables[t].rows

(* C2, amended: the grid of every returned table is reproduced when each   *)
(* cell is a fragment at x = its column index times a spacing larger than  *)
(* 10 (the clustering gap and the assignment tolerance).                   *)
C2_RoundTripAtSpacedColumns ==
  pc = "done" =>
    \A t \in 1..Len(tables) : \A step \in RoundTripSteps :
       RoundTrip(tables[t].rows, step) = tables[t].rows

(* a returned table of three columns with an empty cell *)
C2_Witness ==
  /\ pc = "done"
  /\ \E t \in 1..Len(tables) :
       /\ Len(tables[t].rows[1]) = 3
       /\ \E r \in 1..Len(tables[t].rows) : \E c \in 1..3 : tables[t].rows[r][c] = <<>>

(* C5: the returned tables are in page-then-position order whatever the    *)
(* order of the fragments in the input: page numbers never decrease along  *)
(* the list and, on one page, the tables follow their regions from the top *)
(* down.                                                                   *)
C5_PageThenPositionOrder ==
  pc = "done" =>
    /\ \A i, j \in 1..Len(tables) : i < j => tables[i].pageNumber <= tables[j].pageNumber
    /\ \A i, j \in 1..Len(tables) :
         (i < j /\ tables[i].pageNumber = tables[j].pageNumber)
           => tables[i].source.table < tables[j].source.table
    /\ \A page \in PagesOf(textItems) :
         LET regions == detectTableRegions(PageRows(textItems, page))
         IN \A a, b \in 1..Len(regions) : a < b => regions[a].endY < regions[b].startY

(* C6, as stated: when no page has a table region the result is empty.     *)
C6_NoRegionNoTable ==
  (pc = "done" /\ NoRegionOnAnyPage(textItems)) => Len(tables) = 0

(* C6, amended: when no page has a table region, the result is empty       *)
(* unless some page has at least two rows of two or more fragments each,   *)
(* from which the alternative extraction may build a table.                *)
C6_NoRegionNoMultiRowsNoTable ==
  (/\ pc = "done"
   /\ NoRegionOnAnyPage(textItems)
   /\ \A page \in PagesOf(textItems) :
        Len(MultiFragmentRows(textItems, page)) < MIN_TABLE_ROWS)
    => Len(tables) = 0

(* no region, one multi-fragment row on each of two pages, no table *)
C6_Witness ==
  /\ pc = "done"
  /\ NoRegionOnAnyPage(textItems)
  /\ \A page \in Pages : Len(MultiFragmentRows(textItems, page)) = 1
  /\ Len(tables) = 0

(* C7: every column of every returned table has a non-blank cell.          *)
C7_NoEmptyColumn ==
  pc = "done" =>
    \A t \in 1..Len(tables) : \A c \in 1..Len(tables[t].rows[1]) :
       \E r \in 1..Len(tables[t].rows) : ~IsBlank(tables[t].rows[r][c])

(* a table built from lines whose middle fragment is blank: the column of  *)
(* the blank fragments was dropped                                         *)
C7_Witness ==
  /\ pc = "done"
  /\ \E t \in 1..Len(tables) :
       tables[t].rows = << << <<"a">>, <<"7">> >>, << <<"a">>, <<"7">> >> >>

(* C8: every returned table has at least 2 rows and 2 columns and all its  *)
(* rows have the same length.                                              *)
C8_RectangularAtLeast2x2 ==
  pc = "done" =>
    \A t \in 1..Len(tables) :
       /\ Len(tables[t].rows) >= 2
       /\ Len(tables[t].rows[1]) >= 2
       /\ \A r \in 1..Len(tables[t].rows) : Len(tables[t].rows[r]) = Len(tables[t].rows[1])

(* a table of the alternative path next to lines of different widths: a    *)
(* two-column row padded to the three columns of another                   *)
C8_Witness ==
  /\ pc = "done"
  /\ \E t \in 1..Len(tables) :
       /\ tables[t].source.table = 0
       /\ Len(tables[t].rows[1]) = 3
       /\ \E r \in 1..Len(tables[t].rows) : tables[t].rows[r][3] = <<>>

----------------------------------------------------------------------------
(* extractTables on one page listed from the top down, each line either a  *)
(* row of three aligned cells or a line of prose (Scenario C)              *)

MaxPageLines == 10

LineSpacing == 20

DigitChars == <<"0", "1", "2", "3", "4", "5", "6", "7", "8", "9">>

(* the text of the prose line n names the line: "p" and the last digit of n *)
PageLineFragments(kind, n) ==
  CASE kind = "grid"  -> <<Fragment(<<"a">>, 0, 40, 12), Fragment(<<"b">>, 100, 40, 12),
                           Fragment(<<"c">>, 200, 40, 12)>>
    [] kind = "prose" -> <<Fragment(<<"p", DigitChars[(n % 10) + 1]>>, 0, 300, 12)>>

PageLine(kind, n) ==
  MapSeq(PageLineFragments(kind, n),
         LAMBDA f : [str |-> f.str, x |-> f.x, y |-> n * LineSpacing, width |-> f.width,
                     height |-> LineHeight, page |-> 1, fontSize |-> f.fontSize])

PushPageLine(kind) ==
  /\ pc = "input"
  /\ LinesOn(1) < MaxPageLines
  /\ textItems' = textItems \o PageLine(kind, LinesOn(1) + 1)
  /\ UNCHANGED <<colBoundaries, gridRows, colValues, repeat, pc, tables, pageRows, rowCells, header, colType, structure, request, state, wordState, pageRegions, currencySymbol, metadata, maxFont, docElements, cleanedElements, pageImages>>

NextPage ==
  \/ \E kind \in {"grid", "prose"} : PushPageLine(kind)
  \/ ExtractTables

SpecPage == Init /\ [][NextPage]_vars

(* the page of Scenario C: a 3x3 grid, 4 lines of prose, a 3x3 grid *)
ScenarioC ==
  PageLine("grid", 1) \o PageLine("grid", 2) \o PageLine("grid", 3)
  \o PageLine("prose", 4) \o PageLine("prose", 5) \o PageLine("prose", 6) \o PageLine("prose", 7)
  \o PageLine("grid", 8) \o PageLine("grid", 9) \o PageLine("grid", 10)

(* C1: on the page of Scenario C extractTables returns exactly two tables  *)
(* and the letterhead of the second is the 4 lines of prose.               *)
C1_ScenarioC ==
  (pc = "done" /\ textItems = ScenarioC) =>
    /\ Len(tables) = 2
    /\ tables[2].letterhead = << <<"p", "4">>, <<"p", "5">>, <<"p", "6">>, <<"p", "7">> >>

----------------------------------------------------------------------------
(* groupIntoRows on fragments handed over one by one in any order of y     *)

MaxItems == 4

(* 5 is within the tolerance of 0 and 6 is not; 11 is within the tolerance *)
(* of 6 and not of 5                                                       *)
ItemYs == {0, 5, 6, 11}

ItemSpacing == 10

(* the n-th fragment handed over sits at its own x, so no two are equal *)
RowItem(n, y) ==
  [str |-> <<"a">>, x |-> n * ItemSpacing, y |-> y, width |-> 5,
   height |-> LineHeight, page |-> 1, fontSize |-> DEFAULT_FONT_SIZE]

PushItem(y) ==
  /\ pc = "input"
  /\ Len(textItems) < MaxItems
  /\ textItems' = Append(textItems, RowItem(Len(textItems) + 1, y))
  /\ UNCHANGED <<colBoundaries, gridRows, colValues, repeat, pc, tables, pageRows, rowCells, header, colType, structure, request, state, wordState, pageRegions, currencySymbol, metadata, maxFont, docElements, cleanedElements, pageImages>>

GroupIntoRows ==
  /\ pc = "input"
  /\ pageRows' = groupIntoRows(textItems)
  /\ pc' = "done"
  /\ UNCHANGED <<textItems, colBoundaries, gridRows, colValues, repeat, tables, rowCells, header, colType, structure, request, state, wordState, pageRegions, currencySymbol, metadata, maxFont, docElements, cleanedElements, pageImages>>

NextRows ==
  \/ \E y \in ItemYs : PushItem(y)
  \/ GroupIntoRows

SpecRows == Init /\ [][NextRows]_vars

Orderings(n) == {p \in [1..n -> 1..n] : \A i, j \in 1..n : p[i] = p[j] => i = j}

Permuted(items, p) == [i \in 1..Len(items) |-> items[p[i]]]

(* what the claim compares: per row, top to bottom, the representative y   *)
(* and the set of its fragments                                            *)
RowsView(rows) == [r \in 1..Len(rows) |-> <<rows[r].y, Range(rows[r].items)>>]

IsSortedByY(items) == \A i \in 1..Len(items) - 1 : items[i].y <= items[i + 1].y

(* C4: every permutation of the fragments, those sorted by y included,     *)
(* groups into the same number of rows with the same representative y in   *)
(* the same order and the same fragments per row.                          *)
C4_GroupingIgnoresInputOrder ==
  pc = "done" =>
    \A p \in Orderings(Len(textItems)) :
      RowsView(groupIntoRows(Permuted(textItems, p))) = RowsView(pageRows)

(* fragments given out of y order were grouped into several rows, one of   *)
(* them with several fragments                                             *)
C4_Witness ==
  /\ pc = "done"
  /\ ~IsSortedByY(textItems)
  /\ Len(pageRows) >= 2
  /\ \E r \in 1..Len(pageRows) : Len(pageRows[r].items) >= 2

----------------------------------------------------------------------------
(* assignItemsToColumns on a row of fragments and a list of boundaries the *)
(* caller builds freely                                                    *)

MaxFragments == 2

MaxBoundaries == 2

FragmentStrs == {<<" ", "a">>, <<"b", " ">>, <<" ">>}

FragmentXs == {0, 45, 100}

BoundaryXs == {-50, 0, 50, 100}

RowFragment(str, x) ==
  [str |-> str, x |-> x, y |-> 0, width |-> 5,
   height |-> LineHeight, page |-> 1, fontSize |-> DEFAULT_FONT_SIZE]

PushFragment(str, x) ==
  /\ pc = "input"
  /\ Len(textItems) < MaxFragments
  /\ textItems' = Append(textItems, RowFragment(str, x))
  /\ UNCHANGED <<colBoundaries, gridRows, colValues, repeat, pc, tables, pageRows, rowCells, header, colType, structure, request, state, wordState, pageRegions, currencySymbol, metadata, maxFont, docElements, cleanedElements, pageImages>>

PushBoundary(b) ==
  /\ pc = "input"
  /\ Len(colBoundaries) < MaxBoundaries
  /\ colBoundaries' = Append(colBoundaries, b)
  /\ UNCHANGED <<textItems, gridRows, colValues, repeat, pc, tables, pageRows, rowCells, header, colType, structure, request, state, wordState, pageRegions, currencySymbol, metadata, maxFont, docElements, cleanedElements, pageImages>>

AssignItemsToColumns ==
  /\ pc = "input"
  /\ Len(colBoundaries) >= 1
  /\ rowCells' = assignItemsToColumns(textItems, colBoundaries)
  /\ pc' = "done"
  /\ UNCHANGED <<textItems, colBoundaries, gridRows, colValues, repeat, tables, pageRows, header, colType, structure, request, state, wordState, pageRegions, currencySymbol, metadata, maxFont, docElements, cleanedElements, pageImages>>

NextAssign ==
  \/ \E str \in FragmentStrs, x \in FragmentXs : PushFragment(str, x)
  \/ \E b \in BoundaryXs : PushBoundary(b)
  \/ AssignItemsToColumns

SpecAssign == Init /\ [][NextAssign]_vars

NoOuterWhiteSpace(cell) ==
  Len(cell) = 0 \/ (cell[1] \notin WhiteSpace /\ cell[Len(cell)] \notin WhiteSpace)

(* C9: assignItemsToColumns returns one cell per boundary, and no cell     *)
(* starts or ends with whitespace.                                         *)
C9_OneTrimmedCellPerBoundary ==
  pc = "done" =>
    /\ Len(rowCells) = Len(colBoundaries)
    /\ \A c \in 1..Len(rowCells) : NoOuterWhiteSpace(rowCells[c])

(* two boundaries; a fragment left of every range was placed by the        *)
(* closest-column fallback, a fragment carried outer whitespace, and two   *)
(* fragments were joined in one cell                                       *)
C9_Witness ==
  /\ pc = "done"
  /\ Len(colBoundaries) = 2
  /\ \E i \in 1..Len(textItems) : exactColumn(textItems[i].x, colBoundaries) = 0
  /\ \E i \in 1..Len(textItems) : ~NoOuterWhiteSpace(textItems[i].str)
  /\ \E c \in 1..Len(rowCells) : Len(rowCells[c]) >= 3

----------------------------------------------------------------------------
(* detectColumnType on a list of column values the caller builds value by  *)
(* value and then duplicates                                               *)

MaxValues == 3

MaxRepeat == 2

(* a currency amount, a date, an unsigned number (which currencyPattern    *)
(* accepts), a signed number, a text and a blank                           *)
ColumnValues ==
  {<<"$", "1">>, <<"1", "/", "2", "/", "3", "4">>, <<"7">>, <<"-", "7">>, <<"x">>, <<" ">>}

(* values followed by k more copies of itself *)
RECURSIVE Repeated(_, _)
Repeated(values, k) == IF k = 0 THEN values ELSE values \o Repeated(values, k - 1)

PushValue(v) ==
  /\ pc = "input"
  /\ repeat = 0
  /\ Len(colValues) < MaxValues
  /\ colValues' = Append(colValues, v)
  /\ UNCHANGED <<textItems, colBoundaries, gridRows, repeat, pc, tables, pageRows, rowCells, header, colType, structure, request, state, wordState, pageRegions, currencySymbol, metadata, maxFont, docElements, cleanedElements, pageImages>>

(* one more copy of the list will be appended *)
Duplicate ==
  /\ pc = "input"
  /\ repeat < MaxRepeat
  /\ repeat' = repeat + 1
  /\ UNCHANGED <<textItems, colBoundaries, gridRows, colValues, pc, tables, pageRows, rowCells, header, colType, structure, request, state, wordState, pageRegions, currencySymbol, metadata, maxFont, docElements, cleanedElements, pageImages>>

DetectColumnType ==
  /\ pc = "input"
  /\ colType' = detectColumnType(Repeated(colValues, repeat))
  /\ pc' = "done"
  /\ UNCHANGED <<textItems, colBoundaries, gridRows, colValues, repeat, tables, pageRows, rowCells, header, structure, request, state, wordState, pageRegions, currencySymbol, metadata, maxFont, docElements, cleanedElements, pageImages>>

NextColumnType ==
  \/ \E v \in ColumnValues : PushValue(v)
  \/ Duplicate
  \/ DetectColumnType

SpecColumnType == Init /\ [][NextColumnType]_vars

(* C10: the type detected for a list of values repeated any number of      *)
(* times is the type detected for the list itself.                         *)
C10_TypeUnchangedByDuplication ==
  pc = "done" => colType = detectColumnType(colValues)

(* a duplicated list of a date, a blank and a text: the date counts exactly *)
(* half of the non-empty values                                             *)
C10_Witness ==
  /\ pc = "done"
  /\ repeat >= 1
  /\ colType = "date"
  /\ \E i \in 1..Len(colValues) : IsBlank(colValues[i])
  /\ \E i \in 1..Len(colValues) : valueCategory(colValues[i]) = "text" /\ ~IsBlank(colValues[i])

----------------------------------------------------------------------------
(* detectHeader on a grid the caller builds row by row                     *)

MaxGridRows == 2

GridCols == 2

(* a keyword in lower case and capitalised, a capital, a number, an empty  *)
(* cell, and a number behind a lower-case o with circumflex (its capital   *)
(* is one of the characters the numeric tests strip)                       *)
GridCells ==
  {<<"i", "d">>, <<"I", "d">>, <<"X">>, <<"7">>, <<>>, <<"U+00F4", "7">>}

GridRowsOf == [1..GridCols -> GridCells]

PushRow(row) ==
  /\ pc = "input"
  /\ Len(gridRows) < MaxGridRows
  /\ gridRows' = Append(gridRows, row)
  /\ UNCHANGED <<textItems, colBoundaries, colValues, repeat, pc, tables, pageRows, rowCells, header, colType, structure, request, state, wordState, pageRegions, currencySymbol, metadata, maxFont, docElements, cleanedElements, pageImages>>

DetectHeader ==
  /\ pc = "input"
  /\ header' = detectHeader(gridRows)
  /\ pc' = "done"
  /\ UNCHANGED <<textItems, colBoundaries, gridRows, colValues, repeat, tables, pageRows, rowCells, colType, structure, request, state, wordState, pageRegions, currencySymbol, metadata, maxFont, docElements, cleanedElements, pageImages>>

NextHeader ==
  \/ \E row \in GridRowsOf : PushRow(row)
  \/ DetectHeader

SpecHeader == Init /\ [][NextHeader]_vars

(* the grid with every cell of its first row upper-cased / lower-cased *)
UpperCasedFirstRow(rows) ==
  IF Len(rows) = 0 THEN rows ELSE [rows EXCEPT ![1] = MapSeq(@, toUpperCase)]

LowerCasedFirstRow(rows) ==
  IF Len(rows) = 0 THEN rows ELSE [rows EXCEPT ![1] = MapSeq(@, toLowerCase)]

NonAsciiChars == Range(ExtLowerCase) \cup Range(ExtUpperCase) \cup Range(PoundGlyph)

IsAsciiRow(row) == \A c \in 1..Len(row) : \A i \in 1..Len(row[c]) : row[c][i] \notin NonAsciiChars

(* C3 as stated: upper-casing or lower-casing every cell of the first row  *)
(* leaves isHeader unchanged.                                              *)
C3_CaseInvariant ==
  pc = "done" =>
    /\ detectHeader(UpperCasedFirstRow(gridRows)).isHeader = header.isHeader
    /\ detectHeader(LowerCasedFirstRow(gridRows)).isHeader = header.isHeader

(* C3 amended: when the first row is ASCII text and is detected as a       *)
(* header, it is still detected as a header after upper-casing its cells.  *)
C3_UpperCasingKeepsHeader ==
  (pc = "done" /\ Len(gridRows) >= 1 /\ IsAsciiRow(gridRows[1]) /\ header.isHeader) =>
    detectHeader(UpperCasedFirstRow(gridRows)).isHeader

(* an ASCII first row with a lower-case letter was detected as a header    *)
(* without the numeric-pattern check                                       *)
C3_Witness ==
  /\ pc = "done"
  /\ Len(gridRows) >= 2
  /\ IsAsciiRow(gridRows[1])
  /\ header.isHeader
  /\ UpperCasedFirstRow(gridRows) # gridRows
  /\ ~headerCheck1(gridRows[1], Tail(gridRows))

----------------------------------------------------------------------------
(* the table pushed for a cleaned grid (detectHeader and                   *)
(* analyzeTableMetadata), on a grid the caller builds from whole rows      *)

MaxScenarioRows == 3

(* the rows of Scenario A, a row of numbers and a row with an empty cell *)
ScenarioRows ==
  { << <<"N","a","m","e">>, <<"D","a","t","e">>, <<"A","m","o","u","n","t">> >>,
    << <<"A","l","i","c","e">>, <<"2","0","2","4","-","0","1","-","0","1">>,
       <<"1","0","0",".","0","0">> >>,
    << <<"B","o","b">>, <<"2","0","2","4","-","0","1","-","0","2">>,
       <<"2","0","0",".","0","0">> >>,
    << <<"7">>, <<"8">>, <<"9">> >>,
    << <<"x">>, <<>>, <<"y">> >> }

PushScenarioRow(row) ==
  /\ pc = "input"
  /\ Len(gridRows) < MaxScenarioRows
  /\ gridRows' = Append(gridRows, row)
  /\ UNCHANGED <<textItems, colBoundaries, colValues, repeat, pc, tables, pageRows, rowCells, header, colType, structure, request, state, wordState, pageRegions, currencySymbol, metadata, maxFont, docElements, cleanedElements, pageImages>>

(* lines 81-101 for the first region of page 1 without letterhead *)
PushTable ==
  /\ pc = "input"
  /\ tables' = tableOfCleanedRows(gridRows, 1, 1, <<>>)
  /\ pc' = "done"
  /\ UNCHANGED <<textItems, colBoundaries, gridRows, colValues, repeat, pageRows, rowCells, header, colType, structure, request, state, wordState, pageRegions, currencySymbol, metadata, maxFont, docElements, cleanedElements, pageImages>>

NextGrid ==
  \/ \E row \in ScenarioRows : PushScenarioRow(row)
  \/ PushTable

SpecGrid == Init /\ [][NextGrid]_vars

ScenarioA ==
  << << <<"N","a","m","e">>, <<"D","a","t","e">>, <<"A","m","o","u","n","t">> >>,
     << <<"A","l","i","c","e">>, <<"2","0","2","4","-","0","1","-","0","1">>,
        <<"1","0","0",".","0","0">> >>,
     << <<"B","o","b">>, <<"2","0","2","4","-","0","1","-","0","2">>,
        <<"2","0","0",".","0","0">> >> >>

(* C11: for the grid of Scenario A one table is pushed, a header is        *)
(* detected, the header row is the first row, and the column types, those  *)
(* of the two data rows, are text, date, and number or currency.           *)
C11_ScenarioA ==
  (pc = "done" /\ gridRows = ScenarioA) =>
    /\ Len(tables) = 1
    /\ tables[1].metadata.hasDetectedHeader
    /\ tables[1].headerRow = <<ScenarioA[1]>>
    /\ tables[1].rows = ScenarioA
    /\ Len(tables[1].metadata.columnTypes) = 3
    /\ tables[1].metadata.columnTypes[1] = "text"
    /\ tables[1].metadata.columnTypes[2] = "date"
    /\ tables[1].metadata.columnTypes[3] \in {"number", "currency"}
    /\ tables[1].metadata.columnTypes
         = [col \in 1..3 |-> detectColumnType(columnValuesOf(Tail(ScenarioA), col))]

C11_Witness ==
  /\ pc = "done"
  /\ gridRows = ScenarioA
  /\ Len(tables) = 1
  /\ tables[1].metadata.totalRows = 3

----------------------------------------------------------------------------
(* Document outline (lib/pdfParser.ts).  A fragment is the TextItem that   *)
(* parsePdf makes of a PDFTextItem: x is transform[4], y is the page       *)
(* height minus transform[5], fontSize is the size read off the transform, *)
(* fontName is the empty sequence when the PDF names no font.              *)

TITLE_MIN_FONT_SIZE == 16

HEADING_MIN_FONT_SIZE == 13

SUBHEADING_MIN_FONT_SIZE == 11

LEFT_MARGIN_THRESHOLD == 72

INDENT_STEP == 36

(* MIN_COL_GAP of pdfParser.ts *)
MIN_COL_GAP_Parser == 20

(* the literal 15 of detectColumnBoundaries *)
BOUNDARY_GAP_Parser == 15

(* the forEach of groupIntoLines; avgFontSize is kept as <<num, den>> *)
RECURSIVE groupIntoLinesLoop(_, _, _)
groupIntoLinesLoop(sortedItems, i, lines) ==
  IF i > Len(sortedItems) THEN lines
  ELSE LET item == sortedItems[i]
           n == Len(lines)
       IN IF n = 0 \/ Abs(item.y - lines[n].y) > ROW_TOLERANCE
          THEN groupIntoLinesLoop(sortedItems, i + 1,
                 Append(lines, [y |-> item.y, items |-> <<item>>,
                                avgFontSize |-> <<item.fontSize, 1>>,
                                minX |-> item.x, maxX |-> item.x + item.width,
                                fontNames |-> IF Len(item.fontName) > 0 THEN <<item.fontName>>
                                              ELSE <<>>]))
          ELSE LET k == Len(lines[n].items) + 1
                   grown == [lines[n] EXCEPT
                               !.items = Append(@, item),
                               !.avgFontSize = <<@[1] * (k - 1) + item.fontSize * @[2], @[2] * k>>,
                               !.minX = IF item.x < @ THEN item.x ELSE @,
                               !.maxX = IF item.x + item.width > @ THEN item.x + item.width ELSE @,
                               !.fontNames = IF Len(item.fontName) > 0 /\ item.fontName \notin Range(@)
                                             THEN Append(@, item.fontName) ELSE @]
               IN groupIntoLinesLoop(sortedItems, i + 1, [lines EXCEPT ![n] = grown])

(* mutant: the items are grouped in the order given, not from the top down *)
groupIntoLines_Unsorted(items) ==
  LET sortedItems == SelectSeq(items, LAMBDA it : ~IsBlank(it.str))
      lines == groupIntoLinesLoop(sortedItems, 1, <<>>)
  IN [l \in 1..Len(lines) |->
        [lines[l] EXCEPT !.items = StableSortBy(@, LAMBDA it : it.x)]]

groupIntoLines(items) ==
  LET sortedItems == StableSortBy(SelectSeq(items, LAMBDA it : ~IsBlank(it.str)),
                                  LAMBDA it : it.y)
      lines == groupIntoLinesLoop(sortedItems, 1, <<>>)
  IN [l \in 1..Len(lines) |->
        [lines[l] EXCEPT !.items = StableSortBy(@, LAMBDA it : it.x)]]

(* getGapsBetweenItems of pdfParser.ts *)
getGapsBetweenItems_Parser(items) ==
  IF Len(items) < 2 THEN <<>>
  ELSE LET sorted == StableSortBy(items, LAMBDA it : it.x)
       IN [i \in 1..(Len(sorted) - 1) |-> sorted[i + 1].x - (sorted[i].x + sorted[i].width)]

(* lineSpan > pageWidth * 0.3 *)
isLikelyTableRow(line, pageWidth) ==
  /\ Len(line.items) >= 2
  /\ \E g \in Range(getGapsBetweenItems_Parser(line.items)) : g >= MIN_COL_GAP_Parser
  /\ 10 * (line.maxX - line.minX) > 3 * pageWidth

(* the minimum of each cluster of the sorted x positions, cut where the    *)
(* gap to the previous position exceeds 15                                 *)
detectColumnBoundaries(lines) ==
  LET positions == ConcatAll(MapSeq(lines, LAMBDA line : MapSeq(line.items, LAMBDA it : it.x)))
      sorted == SortNumbers(positions)
      starts == {i \in 1..Len(sorted) : i = 1 \/ sorted[i] - sorted[i - 1] > BOUNDARY_GAP_Parser}
  IN IF Len(positions) = 0 THEN <<>>
     ELSE MapSeq(SetToSortedSeq(starts), LAMBDA i : sorted[i])
(* the region pushed for the run of table rows first..last, if it has      *)
(* enough rows and columns; a sequence of length 0 or 1                    *)
regionOfRun(lines, first, last) ==
  IF last - first + 1 >= MIN_TABLE_ROWS
     /\ Len(detectColumnBoundaries(SubSeq(lines, first, last))) >= MIN_TABLE_COLS
  THEN <<[startIndex |-> first, endIndex |-> last,
          columnBoundaries |-> detectColumnBoundaries(SubSeq(lines, first, last))]>>
  ELSE <<>>

(* the for loop of detectTableRegions of pdfParser.ts; regionStart is 0    *)
(* for null and consecutiveTableRows is i - regionStart                    *)
RECURSIVE detectTableRegionsLoop_Parser(_, _, _, _, _)
detectTableRegionsLoop_Parser(lines, pageWidth, i, regionStart, regions) ==
  IF i > Len(lines)
  THEN IF regionStart # 0 THEN regions \o regionOfRun(lines, regionStart, Len(lines))
       ELSE regions
  ELSE IF isLikelyTableRow(lines[i], pageWidth)
       THEN detectTableRegionsLoop_Parser(lines, pageWidth, i + 1,
              IF regionStart = 0 THEN i ELSE regionStart, regions)
       ELSE detectTableRegionsLoop_Parser(lines, pageWidth, i + 1, 0,
              IF regionStart # 0 THEN regions \o regionOfRun(lines, regionStart, i - 1)
              ELSE regions)

detectTableRegions_Parser(lines, pageWidth) ==
  detectTableRegionsLoop_Parser(lines, pageWidth, 1, 0, <<>>)

(* the items of a line are taken in the order of the line (by x) *)
extractTableRows(lines) ==
  MapSeq(lines, LAMBDA line :
    MapSeq(assignLoop(line.items, 1, detectColumnBoundaries(lines),
                      [i \in 1..Len(detectColumnBoundaries(lines)) |-> <<>>]),
           Trim))

(* /[$,.\s%]/g *)
NumericNoise_Parser == {"$", ",", ".", "%"} \cup WhiteSpace

getNumericRatio_Parser(row) ==
  LET nonEmpty == SelectSeq(row, LAMBDA c : ~IsBlank(c))
      numeric == SelectSeq(nonEmpty,
                   LAMBDA cell : parseFloatKind(RemoveChars(cell, NumericNoise_Parser)) = "finite")
  IN IF Len(nonEmpty) = 0 THEN <<0, 1>> ELSE <<Len(numeric), Len(nonEmpty)>>

detectTableHeader(rows) ==
  IF Len(rows) < 2 THEN FALSE
  ELSE LET first == getNumericRatio_Parser(rows[1])
           restSum == RatioSum(MapSeq(Tail(rows), getNumericRatio_Parser))
       IN /\ 10 * first[1] < 3 * first[2]
          /\ 10 * restSum[1] > 3 * restSum[2] * (Len(rows) - 1)
(* the characters of the class of BULLET_PATTERNS *)
BulletChars ==
  {"U+2022", "U+2023", "U+25E6", "U+2043", "U+2219", "U+25CF", "U+25CB", "-", "*"}

(* BULLET_PATTERNS.test(content): the \s* after the bullet always matches *)
IsBullet(content) == Len(content) > 0 /\ content[1] \in BulletChars

(* a prefix of s matches the anchored pattern *)
MatchPrefix(s, segs) == \E k \in 0..Len(s) : MatchSegs(SubSeq(s, 1, k), segs)

RomanChars == {"i", "v", "x", "I", "V", "X"}

(* NUMBERED_PATTERNS.test(content); the trailing \s* always matches *)
IsNumbered(content) ==
  \/ MatchPrefix(content, <<Seg(Digits, 1, Unbounded), Seg({".", ")"}, 1, 1)>>)
  \/ MatchPrefix(content, <<Seg({"("}, 1, 1), Seg(Range(LowerCase), 1, 1), Seg({")"}, 1, 1)>>)
  \/ MatchPrefix(content, <<Seg(Range(LowerCase), 1, 1), Seg({".", ")"}, 1, 1)>>)
  \/ MatchPrefix(content, <<Seg(RomanChars, 1, Unbounded), Seg({".", ")"}, 1, 1)>>)

(* .replace(/\s+/g, ' ') *)
RECURSIVE CollapseWhiteSpace(_)
CollapseWhiteSpace(s) ==
  IF Len(s) = 0 THEN s
  ELSE IF Head(s) \in WhiteSpace THEN <<" ">> \o CollapseWhiteSpace(TrimStart(s))
  ELSE <<Head(s)>> \o CollapseWhiteSpace(Tail(s))

(* the number of digits s starts with *)
RECURSIVE LeadingDigits(_)
LeadingDigits(s) ==
  IF Len(s) > 0 /\ Head(s) \in Digits THEN 1 + LeadingDigits(Tail(s)) ELSE 0

(* .replace(BULLET_PATTERNS, '') *)
StripBullet(text) == IF IsBullet(text) THEN TrimStart(Tail(text)) ELSE text

(* .replace(/^(\d+)[\.\)]\s*/, '$1. ') *)
NormalizeNumber(text) ==
  LET k == LeadingDigits(text)
  IN IF k >= 1 /\ Len(text) > k /\ text[k + 1] \in {".", ")"}
     THEN SubSeq(text, 1, k) \o <<".", " ">> \o TrimStart(SubSeq(text, k + 2, Len(text)))
     ELSE text

(* the characters of [\x00-\x1F\x7F] that fragments are written with *)
ControlChars == {"\t", "\n", "\r"}

cleanTextContent(text) ==
  Trim(RemoveChars(CollapseWhiteSpace(NormalizeNumber(StripBullet(text))), ControlChars))

(* /bold|black|heavy|demi/i *)
IsBoldName(name) ==
  \/ IncludesIgnoreCase(name, <<"b", "o", "l", "d">>)
  \/ IncludesIgnoreCase(name, <<"b", "l", "a", "c", "k">>)
  \/ IncludesIgnoreCase(name, <<"h", "e", "a", "v", "y">>)
  \/ IncludesIgnoreCase(name, <<"d", "e", "m", "i">>)

(* /italic|oblique/i *)
IsItalicName(name) ==
  \/ IncludesIgnoreCase(name, <<"i", "t", "a", "l", "i", "c">>)
  \/ IncludesIgnoreCase(name, <<"o", "b", "l", "i", "q", "u", "e">>)

(* mutant: the heading test comes before the title test *)
lineType_HeadingFirst(content, fontSize, maxFontSize, isBold) ==
  IF fontSize[1] >= HEADING_MIN_FONT_SIZE * fontSize[2]
     /\ 10 * fontSize[1] >= 7 * maxFontSize * fontSize[2] THEN "heading"
  ELSE IF 10 * fontSize[1] >= 9 * maxFontSize * fontSize[2]
          /\ fontSize[1] >= TITLE_MIN_FONT_SIZE * fontSize[2] THEN "title"
  ELSE IF \/ /\ fontSize[1] >= SUBHEADING_MIN_FONT_SIZE * fontSize[2]
             /\ 10 * fontSize[1] >= 6 * maxFontSize * fontSize[2]
          \/ isBold /\ fontSize[1] >= 10 * fontSize[2] THEN "subheading"
  ELSE IF IsBullet(content) THEN "bullet"
  ELSE IF IsNumbered(content) THEN "numbered"
  ELSE IF Len(content) = 0 THEN "whitespace"
  ELSE "paragraph"

(* the cascade of classifyLine; fontSize is <<num, den>>: fontSize >= c is *)
(* num >= c * den, fontSize >= maxFontSize * 0.9 is 10 num >= 9 max den    *)
lineType(content, fontSize, maxFontSize, isBold) ==
  IF 10 * fontSize[1] >= 9 * maxFontSize * fontSize[2]
     /\ fontSize[1] >= TITLE_MIN_FONT_SIZE * fontSize[2] THEN "title"
  ELSE IF fontSize[1] >= HEADING_MIN_FONT_SIZE * fontSize[2]
          /\ 10 * fontSize[1] >= 7 * maxFontSize * fontSize[2] THEN "heading"
  ELSE IF \/ /\ fontSize[1] >= SUBHEADING_MIN_FONT_SIZE * fontSize[2]
             /\ 10 * fontSize[1] >= 6 * maxFontSize * fontSize[2]
          \/ isBold /\ fontSize[1] >= 10 * fontSize[2] THEN "subheading"
  ELSE IF IsBullet(content) THEN "bullet"
  ELSE IF IsNumbered(content) THEN "numbered"
  ELSE IF Len(content) = 0 THEN "whitespace"
  ELSE "paragraph"

(* Math.max(0, Math.floor((line.minX - LEFT_MARGIN_THRESHOLD) / INDENT_STEP)) *)
lineIndent(line) ==
  IF line.minX < LEFT_MARGIN_THRESHOLD THEN 0
  ELSE (line.minX - LEFT_MARGIN_THRESHOLD) \div INDENT_STEP

(* Math.abs(centerX - pageCenterX) < 50, doubled *)
isCentered(line, pageWidth) == Abs(line.minX + line.maxX - pageWidth) < 100

lineLevel(type, indent) ==
  CASE type = "heading" -> 1
    [] type = "subheading" -> 2
    [] type \in {"bullet", "numbered"} -> indent + 1
    [] OTHER -> 0

lineAlignment(line, type, pageWidth) ==
  IF isCentered(line, pageWidth) /\ type \in {"title", "heading"} THEN "center"
  ELSE IF 10 * line.minX > 6 * pageWidth THEN "right"
  ELSE "left"

(* the element returned for the line and its type; level 0 and indent 0    *)
(* are undefined, tableData is the empty sequence when there is none       *)
elementOfType(line, type, content, page, pageWidth) ==
  [type |-> type,
   content |-> cleanTextContent(content),
   page |-> page,
   level |-> lineLevel(type, lineIndent(line)),
   indent |-> lineIndent(line),
   fontSize |-> line.avgFontSize,
   fontName |-> IF Len(line.fontNames) > 0 THEN line.fontNames[1] ELSE <<>>,
   alignment |-> lineAlignment(line, type, pageWidth),
   isBold |-> \/ \E n \in Range(line.fontNames) : IsBoldName(n)
              \/ line.avgFontSize[1] >= HEADING_MIN_FONT_SIZE * line.avgFontSize[2],
   isItalic |-> \E n \in Range(line.fontNames) : IsItalicName(n),
   tableData |-> <<>>]

elementOfContent(line, content, maxFontSize, page, pageWidth) ==
  elementOfType(line,
                lineType(content, line.avgFontSize, maxFontSize,
                         \E n \in Range(line.fontNames) : IsBoldName(n)),
                content, page, pageWidth)

(* mutant: the bullet test comes before the tests of the font size *)
classifyLine_BulletFirst(line, maxFontSize, page, pageWidth) ==
  IF IsBullet(Trim(JoinSpace(MapSeq(line.items, LAMBDA it : it.str))))
  THEN elementOfType(line, "bullet", Trim(JoinSpace(MapSeq(line.items, LAMBDA it : it.str))),
                     page, pageWidth)
  ELSE elementOfContent(line, Trim(JoinSpace(MapSeq(line.items, LAMBDA it : it.str))),
                        maxFontSize, page, pageWidth)

classifyLine(line, maxFontSize, page, pageWidth) ==
  elementOfContent(line, Trim(JoinSpace(MapSeq(line.items, LAMBDA it : it.str))),
                   maxFontSize, page, pageWidth)
(* previousElement.content does not end with one of . : ! ? *)
EndsOpen(content) == Len(content) = 0 \/ content[Len(content)] \notin {".", ":", "!", "?"}

(* mutant: a table or image is pushed without becoming previousElement *)
RECURSIVE cleanLoop_TableKeepsPrevious(_, _, _, _)
cleanLoop_TableKeepsPrevious(elements, i, cleaned, prev) ==
  IF i > Len(elements) THEN cleaned
  ELSE LET element == elements[i]
       IN IF element.type \in {"image", "table"}
          THEN cleanLoop_TableKeepsPrevious(elements, i + 1, Append(cleaned, element), prev)
          ELSE IF element.type = "whitespace" /\ IsBlank(element.content)
          THEN IF prev # 0 /\ cleaned[prev].type # "whitespace"
               THEN cleanLoop_TableKeepsPrevious(elements, i + 1, Append(cleaned, element), prev)
               ELSE cleanLoop_TableKeepsPrevious(elements, i + 1, cleaned, prev)
          ELSE IF IsBlank(element.content)
          THEN cleanLoop_TableKeepsPrevious(elements, i + 1, cleaned, prev)
          ELSE IF /\ prev # 0
                  /\ cleaned[prev].type = "paragraph"
                  /\ element.type = "paragraph"
                  /\ cleaned[prev].page = element.page
                  /\ cleaned[prev].indent = element.indent
                  /\ EndsOpen(cleaned[prev].content)
          THEN cleanLoop_TableKeepsPrevious(elements, i + 1,
                         [cleaned EXCEPT ![prev].content = @ \o <<" ">> \o element.content], prev)
          ELSE cleanLoop_TableKeepsPrevious(elements, i + 1, Append(cleaned, element), Len(cleaned) + 1)

(* the forEach of cleanDocumentElements: previousElement is the element at *)
(* index prev of cleaned (0 for null), and merging changes it in place     *)
RECURSIVE cleanLoop(_, _, _, _)
cleanLoop(elements, i, cleaned, prev) ==
  IF i > Len(elements) THEN cleaned
  ELSE LET element == elements[i]
       IN IF element.type \in {"image", "table"}
          THEN cleanLoop(elements, i + 1, Append(cleaned, element), Len(cleaned) + 1)
          ELSE IF element.type = "whitespace" /\ IsBlank(element.content)
          THEN IF prev # 0 /\ cleaned[prev].type # "whitespace"
               THEN cleanLoop(elements, i + 1, Append(cleaned, element), prev)
               ELSE cleanLoop(elements, i + 1, cleaned, prev)
          ELSE IF IsBlank(element.content)
          THEN cleanLoop(elements, i + 1, cleaned, prev)
          ELSE IF /\ prev # 0
                  /\ cleaned[prev].type = "paragraph"
                  /\ element.type = "paragraph"
                  /\ cleaned[prev].page = element.page
                  /\ cleaned[prev].indent = element.indent
                  /\ EndsOpen(cleaned[prev].content)
          THEN cleanLoop(elements, i + 1,
                         [cleaned EXCEPT ![prev].content = @ \o <<" ">> \o element.content], prev)
          ELSE cleanLoop(elements, i + 1, Append(cleaned, element), Len(cleaned) + 1)

(* mutant: the walk starts at the second element *)
cleanDocumentElements_FromSecond(elements) == cleanLoop(elements, 2, <<>>, 0)

cleanDocumentElements(elements) == cleanLoop(elements, 1, <<>>, 0)

(* the decimal digits of a natural number *)
RECURSIVE NumberToString(_)
NumberToString(n) ==
  IF n < 10 THEN <<DigitChars[n + 1]>>
  ELSE NumberToString(n \div 10) \o <<DigitChars[(n % 10) + 1]>>

(* the table element pushed for a region with enough rows; a sequence of   *)
(* length 0 or 1                                                           *)
tableElementOfRows(tableRows, pageNum) ==
  IF Len(tableRows) >= MIN_TABLE_ROWS
  THEN <<[type |-> "table",
          content |-> <<"T", "a", "b", "l", "e", " ", "(">> \o NumberToString(Len(tableRows))
                      \o <<" ", "r", "o", "w", "s", ")">>,
          page |-> pageNum, level |-> 0, indent |-> 0, fontSize |-> <<0, 1>>,
          fontName |-> <<>>, alignment |-> "none", isBold |-> FALSE, isItalic |-> FALSE,
          tableData |-> <<[rows |-> tableRows, hasHeader |-> detectTableHeader(tableRows)]>>]>>
  ELSE <<>>

(* the while loop over the lines of a page: the elements pushed for line   *)
(* lineIndex, which are none for a line inside a table region              *)
lineElements(lines, tableRegions, lineIndex, maxFontSize, pageNum, pageWidth) ==
  LET inside == {r \in 1..Len(tableRegions) :
                   lineIndex >= tableRegions[r].startIndex /\ lineIndex <= tableRegions[r].endIndex}
  IN IF inside = {}
     THEN <<classifyLine(lines[lineIndex], maxFontSize, pageNum, pageWidth)>>
     ELSE LET region == tableRegions[CHOOSE r \in inside : \A q \in inside : r <= q]
          IN IF lineIndex = region.startIndex
             THEN tableElementOfRows(
                    extractTableRows(SubSeq(lines, region.startIndex, region.endIndex)), pageNum)
             ELSE <<>>

pageElementsOfLines(lines, tableRegions, maxFontSize, pageNum, pageWidth) ==
  ConcatAll([lineIndex \in 1..Len(lines) |->
               lineElements(lines, tableRegions, lineIndex, maxFontSize, pageNum, pageWidth)])

pageElementsOfPage(lines, maxFontSize, pageNum, pageWidth) ==
  pageElementsOfLines(lines, detectTableRegions_Parser(lines, pageWidth),
                      maxFontSize, pageNum, pageWidth)

pageElements(items, maxFontSize, pageNum, pageWidth) ==
  pageElementsOfPage(groupIntoLines(pageItems(items, pageNum)), maxFontSize, pageNum, pageWidth)

(* the first pass: the largest font size of the first page, 0 if it has no *)
(* text                                                                    *)
maxFontSizeOf(items) ==
  LET sizes == {items[i].fontSize : i \in {j \in 1..Len(items) :
                                             items[j].page = 1 /\ ~IsBlank(items[j].str)}}
  IN IF sizes = {} THEN 0 ELSE CHOOSE s \in sizes : \A t \in sizes : t <= s
(* documentTitle: the content of the first line classified title among the *)
(* first 5 lines of page 1 outside the table regions; an empty content is  *)
(* falsy and is replaced by the next one.  A sequence of length 0 or 1.    *)
documentTitleOfLines(lines, tableRegions, maxFontSize, pageWidth) ==
  LET outside(l) == \A r \in 1..Len(tableRegions) :
                      l < tableRegions[r].startIndex \/ l > tableRegions[r].endIndex
      titles == {l \in 1..Len(lines) :
                   /\ l <= 5
                   /\ outside(l)
                   /\ classifyLine(lines[l], maxFontSize, 1, pageWidth).type = "title"}
      named == {l \in titles : Len(classifyLine(lines[l], maxFontSize, 1, pageWidth).content) > 0}
  IN IF titles = {} THEN <<>>
     ELSE IF named = {} THEN << <<>> >>
     ELSE <<classifyLine(lines[CHOOSE l \in named : \A m \in named : l <= m],
                         maxFontSize, 1, pageWidth).content>>

documentTitleOfPage(lines, maxFontSize, pageWidth) ==
  documentTitleOfLines(lines, detectTableRegions_Parser(lines, pageWidth), maxFontSize, pageWidth)

documentTitle(items, totalPages, pageWidth) ==
  IF totalPages < 1 THEN <<>>
  ELSE documentTitleOfPage(groupIntoLines(pageItems(items, 1)), maxFontSizeOf(items), pageWidth)

(* the second pass over the pages 1..totalPages of a document without      *)
(* images, and the clean-up                                                *)
extractDocumentStructure(items, totalPages, pageWidth) ==
  [title |-> documentTitle(items, totalPages, pageWidth),
   elements |-> cleanDocumentElements(
                  ConcatAll([pageNum \in 1..totalPages |->
                               pageElements(items, maxFontSizeOf(items), pageNum, pageWidth)])),
   pages |-> totalPages]
----------------------------------------------------------------------------
(* extractTables and extractDocumentStructure on a one-page document       *)
(* listed line by line from the top down                                   *)

MaxOutlineLines == 4

PageWidth == 600

BodyFontSize == 12

BannerFontSizes == {15, 16, 24}

OutlineLineKinds == {"text", "sentence", "columns"}

(* a centred banner in the given font size, an ordinary line of text       *)
(* without and with a full stop, and a row of two cells                    *)
OutlineFragments(kind, size) ==
  CASE kind = "banner"   -> <<[str |-> <<"A", " ", "1">>, x |-> 250, width |-> 100, fontSize |-> size]>>
    [] kind = "text"     -> <<[str |-> <<"p", " ", "q">>, x |-> 72, width |-> 300, fontSize |-> size]>>
    [] kind = "sentence" -> <<[str |-> <<"r", ".">>, x |-> 72, width |-> 300, fontSize |-> size]>>
    [] kind = "columns"  -> <<[str |-> <<"a">>, x |-> 72, width |-> 50, fontSize |-> size],
                              [str |-> <<"7">>, x |-> 400, width |-> 50, fontSize |-> size]>>

OutlineLine(kind, size, n) ==
  MapSeq(OutlineFragments(kind, size),
         LAMBDA f : [str |-> f.str, x |-> f.x, y |-> n * LineSpacing, width |-> f.width,
                     height |-> f.fontSize, page |-> 1, fontName |-> <<>>,
                     fontSize |-> f.fontSize])

PushOutlineLine(kind, size) ==
  /\ pc = "input"
  /\ LinesOn(1) < MaxOutlineLines
  /\ textItems' = textItems \o OutlineLine(kind, size, LinesOn(1) + 1)
  /\ UNCHANGED <<colBoundaries, gridRows, colValues, repeat, pc, tables, pageRows, rowCells, header, colType, structure, request, state, wordState, pageRegions, currencySymbol, metadata, maxFont, docElements, cleanedElements, pageImages>>

(* convert with outputFormat doc: both extractions of the page *)
ExtractPage ==
  /\ pc = "input"
  /\ tables' = extractTables(textItems)
  /\ structure' = extractDocumentStructure(textItems, 1, PageWidth)
  /\ pc' = "done"
  /\ UNCHANGED <<textItems, colBoundaries, gridRows, colValues, repeat, pageRows, rowCells, header, colType, request, state, wordState, pageRegions, currencySymbol, metadata, maxFont, docElements, cleanedElements, pageImages>>

NextOutline ==
  \/ \E size \in BannerFontSizes : PushOutlineLine("banner", size)
  \/ \E kind \in OutlineLineKinds : PushOutlineLine(kind, BodyFontSize)
  \/ ExtractPage

SpecOutline == Init /\ [][NextOutline]_vars

IsBanner(item) == item.str = <<"A", " ", "1">>

(* the page of Scenario B: a centred single-fragment row at the top in a   *)
(* font of at least minSize, then single-fragment rows in the body font    *)
IsScenarioB(items, minSize) ==
  /\ Len(items) >= 2
  /\ IsBanner(items[1])
  /\ items[1].fontSize >= minSize
  /\ \A i \in 2..Len(items) : items[i].fontSize = BodyFontSize /\ items[i].x = 72
  /\ \A i, j \in 1..Len(items) : items[i].y = items[j].y => i = j

(* C12 as stated: with a top row in a large font (larger than the 14 that  *)
(* scoreRowAsTableRow takes for a title) extractTables returns no table    *)
(* and the first outline element is a title.                               *)
C12_ScenarioB ==
  (pc = "done" /\ IsScenarioB(textItems, LARGE_FONT_SIZE + 1)) =>
    /\ Len(tables) = 0
    /\ Len(structure.elements) >= 1
    /\ structure.elements[1].type = "title"

(* C12 amended: the same when the font of the top row is at least          *)
(* TITLE_MIN_FONT_SIZE.                                                    *)
C12_ScenarioBTitleFont ==
  (pc = "done" /\ IsScenarioB(textItems, TITLE_MIN_FONT_SIZE)) =>
    /\ Len(tables) = 0
    /\ Len(structure.elements) >= 1
    /\ structure.elements[1].type = "title"
    /\ structure.title = <<structure.elements[1].content>>

(* a banner of exactly the title floor over three lines of text *)
C12_Witness ==
  /\ pc = "done"
  /\ IsScenarioB(textItems, TITLE_MIN_FONT_SIZE)
  /\ textItems[1].fontSize = TITLE_MIN_FONT_SIZE
  /\ Len(textItems) = 4
  /\ Len(structure.elements) = 4
  /\ structure.elements[1].alignment = "center"
----------------------------------------------------------------------------
(* detectColumnBoundariesForRegion on the rows of fragments handed over    *)
(* one by one                                                              *)

MaxRegionItems == 3

RegionXs == {0, 10, 11, 21, 50, 200}

RegionYs == {0, 20}

RegionItem(x, y) ==
  [str |-> <<"a">>, x |-> x, y |-> y, width |-> 5,
   height |-> LineHeight, page |-> 1, fontSize |-> DEFAULT_FONT_SIZE]

PushRegionItem(x, y) ==
  /\ pc = "input"
  /\ Len(textItems) < MaxRegionItems
  /\ textItems' = Append(textItems, RegionItem(x, y))
  /\ UNCHANGED <<colBoundaries, gridRows, colValues, repeat, pc, tables, pageRows, rowCells, header, colType, structure, request, state, wordState, pageRegions, currencySymbol, metadata, maxFont, docElements, cleanedElements, pageImages>>

DetectColumnBoundaries ==
  /\ pc = "input"
  /\ pageRows' = groupIntoRows(textItems)
  /\ colBoundaries' = detectColumnBoundariesForRegion(groupIntoRows(textItems))
  /\ pc' = "done"
  /\ UNCHANGED <<textItems, gridRows, colValues, repeat, tables, rowCells, header, colType, structure, request, state, wordState, pageRegions, currencySymbol, metadata, maxFont, docElements, cleanedElements, pageImages>>

NextBoundaries ==
  \/ \E x \in RegionXs, y \in RegionYs : PushRegionItem(x, y)
  \/ DetectColumnBoundaries

SpecBoundaries == Init /\ [][NextBoundaries]_vars

PositionsOf(items) == {items[i].x : i \in 1..Len(items)}

(* the least position of each cluster: a position with no smaller position *)
(* within the threshold below it                                           *)
ClusterMinima(positions, threshold) ==
  {p \in positions : ~\E q \in positions : q < p /\ p - q <= threshold}

(* C13: the boundaries are the minima of the clusters of the sorted         *)
(* positions cut at gaps above the threshold (10), strictly ascending and  *)
(* more than the threshold apart; x = 0, 50, 200 give [0, 50, 200].        *)
C13_BoundariesAreClusterMinima ==
  pc = "done" =>
    /\ Range(colBoundaries) = ClusterMinima(PositionsOf(textItems), CLUSTER_GAP)
    /\ \A i \in 1..(Len(colBoundaries) - 1) : colBoundaries[i + 1] - colBoundaries[i] > CLUSTER_GAP
    /\ (PositionsOf(textItems) = {0, 50, 200} => colBoundaries = <<0, 50, 200>>)

(* fragments at 0, 50 and 200 in two rows, not handed over in x order *)
C13_Witness ==
  /\ pc = "done"
  /\ PositionsOf(textItems) = {0, 50, 200}
  /\ Len(pageRows) = 2
  /\ textItems[1].x # 0
  /\ colBoundaries = <<0, 50, 200>>
----------------------------------------------------------------------------
(* The conversion hooks (hooks/usePdfConversion.ts).  The content of the   *)
(* PDF is the list of its text items, page by page, blank ones included.   *)

(* the items parsePdf keeps: those whose str is not blank *)
parsePdf(content) == SelectSeq(content, LAMBDA it : ~IsBlank(it.str))

(* the text of one page: a sequence of length 0 or 1 *)
pageText(content, pageNum) ==
  LET text == Trim(CollapseWhiteSpace(
                     JoinSpace(MapSeq(pageItems(content, pageNum), LAMBDA it : it.str))))
  IN IF Len(text) > 0 THEN <<[page |-> pageNum, content |-> text]>> ELSE <<>>

extractTextByPage(content, totalPages) ==
  ConcatAll([pageNum \in 1..totalPages |-> pageText(content, pageNum)])

(* lines 65-82 of convert, given the tables of extractTables; the optional *)
(* documentStructure is a sequence of length 0 or 1                        *)
resultOfTables(content, totalPages, mode, foundTables, documentStructure) ==
  IF mode # "text" /\ (Len(foundTables) > 0 \/ mode = "tables")
  THEN [tables |-> foundTables, textContent |-> <<>>, mode |-> "tables",
        documentStructure |-> documentStructure]
  ELSE [tables |-> <<>>, textContent |-> extractTextByPage(content, totalPages),
        mode |-> "text", documentStructure |-> documentStructure]

conversionResult(content, totalPages, mode, documentStructure) ==
  resultOfTables(content, totalPages, mode,
                 IF mode = "text" THEN <<>> ELSE extractTables(parsePdf(content)),
                 documentStructure)

NoContentMessage == "No extractable content found in this PDF"

(* the message of an error thrown by the file or by pdf.js *)
OtherMessage == "Invalid PDF structure"

FileName == "file.pdf"

(* mutant: the result is never taken for empty *)
hasNoData_Never(result) == FALSE

(* line 85: result.tables.length === 0 && result.textContent.length === 0 *)
hasNoData(result) == Len(result.tables) = 0 /\ Len(result.textContent) = 0

(* the state set by the catch block of convert *)
errorState(message, outputFormat) ==
  [status |-> "error", progress |-> 0, result |-> <<>>, error |-> <<message>>,
   fileName |-> <<FileName>>, outputFormat |-> outputFormat]

(* lines 84-108 of convert: the state set for the result *)
stateOfResult(result, outputFormat) ==
  IF hasNoData(result) THEN errorState(NoContentMessage, outputFormat)
  ELSE [status |-> "complete", progress |-> 100, result |-> <<result>>, error |-> <<>>,
        fileName |-> <<FileName>>, outputFormat |-> outputFormat]

(* the state set by the catch block of convert of useWordConversion *)
wordErrorState(message) ==
  [status |-> "error", progress |-> 0, documentStructure |-> <<>>, error |-> <<message>>,
   fileName |-> <<FileName>>]
MaxContentLines == 3

ContentPages == {1, 2}

ContentLineKinds == {"blank", "text", "columns"}

(* a line of one blank item, a line of text, a row of two cells *)
ContentFragments(kind) ==
  CASE kind = "blank"   -> <<[str |-> <<" ">>, x |-> 72, width |-> 5]>>
    [] kind = "text"    -> <<[str |-> <<"p", " ", "q">>, x |-> 72, width |-> 300]>>
    [] kind = "columns" -> <<[str |-> <<"a">>, x |-> 72, width |-> 50],
                             [str |-> <<"7">>, x |-> 400, width |-> 50]>>

ContentLine(kind, page, n) ==
  MapSeq(ContentFragments(kind),
         LAMBDA f : [str |-> f.str, x |-> f.x, y |-> n * LineSpacing, width |-> f.width,
                     height |-> BodyFontSize, page |-> page, fontName |-> <<>>,
                     fontSize |-> BodyFontSize])

(* pdf.numPages: the last page that has an item; a PDF has at least 1 page *)
totalPagesOf(content) ==
  IF Len(content) = 0 THEN 1 ELSE content[Len(content)].page

(* the items are listed page by page *)
PushContentLine(kind, page) ==
  /\ pc = "input"
  /\ LineCount < MaxContentLines
  /\ Len(textItems) > 0 => page >= textItems[Len(textItems)].page
  /\ textItems' = textItems \o ContentLine(kind, page, LinesOn(page) + 1)
  /\ UNCHANGED <<colBoundaries, gridRows, colValues, repeat, pc, tables, pageRows, rowCells, header, colType, structure, request, state, wordState, pageRegions, currencySymbol, metadata, maxFont, docElements, cleanedElements, pageImages>>
(* convert of usePdfConversion up to the first await (lines 30-43) *)
Convert(mode, outputFormat) ==
  /\ pc = "input"
  /\ state' = [status |-> "reading", progress |-> 2, result |-> <<>>, error |-> <<>>,
               fileName |-> <<FileName>>, outputFormat |-> outputFormat]
  /\ request' = [hook |-> "pdf", mode |-> mode, outputFormat |-> outputFormat, at |-> "awaiting"]
  /\ pc' = "reading"
  /\ UNCHANGED <<textItems, colBoundaries, gridRows, colValues, repeat, tables, pageRows, rowCells, header, colType, structure, wordState, pageRegions, currencySymbol, metadata, maxFont, docElements, cleanedElements, pageImages>>

(* file.arrayBuffer() resolved (lines 43-51) *)
FileRead ==
  /\ pc = "reading"
  /\ request.hook = "pdf"
  /\ state' = [state EXCEPT !.status = "parsing"]
  /\ pc' = "parsing"
  /\ UNCHANGED <<textItems, colBoundaries, gridRows, colValues, repeat, tables, pageRows, rowCells, header, colType, structure, request, wordState, pageRegions, currencySymbol, metadata, maxFont, docElements, cleanedElements, pageImages>>

(* parsePdf and, for doc, extractDocumentStructure resolved (lines 52-62) *)
PdfParsed ==
  /\ pc = "parsing"
  /\ request.hook = "pdf"
  /\ structure' = IF request.outputFormat = "doc"
                  THEN extractDocumentStructure(textItems, totalPagesOf(textItems), PageWidth)
                  ELSE structure
  /\ state' = [state EXCEPT !.status = "extracting",
                            !.progress = IF request.outputFormat = "doc" THEN 75 ELSE 50]
  /\ pc' = "extracting"
  /\ UNCHANGED <<textItems, colBoundaries, gridRows, colValues, repeat, tables, pageRows, rowCells, header, colType, request, wordState, pageRegions, currencySymbol, metadata, maxFont, docElements, cleanedElements, pageImages>>

(* the extraction and the test of its result (lines 63-108) *)
Extracted ==
  /\ pc = "extracting"
  /\ request.hook = "pdf"
  /\ state' = stateOfResult(
                conversionResult(textItems, totalPagesOf(textItems), request.mode,
                                 IF request.outputFormat = "doc" THEN <<structure>> ELSE <<>>),
                request.outputFormat)
  /\ request' = [request EXCEPT !.at = "checked"]
  /\ pc' = "done"
  /\ UNCHANGED <<textItems, colBoundaries, gridRows, colValues, repeat, tables, pageRows, rowCells, header, colType, structure, wordState, pageRegions, currencySymbol, metadata, maxFont, docElements, cleanedElements, pageImages>>

(* a step convert awaits rejected: the catch block (lines 98-108) *)
Threw ==
  /\ pc \in {"reading", "parsing", "extracting"}
  /\ request.hook = "pdf"
  /\ state' = errorState(OtherMessage, request.outputFormat)
  /\ request' = [request EXCEPT !.at = "threw"]
  /\ pc' = "done"
  /\ UNCHANGED <<textItems, colBoundaries, gridRows, colValues, repeat, tables, pageRows, rowCells, header, colType, structure, wordState, pageRegions, currencySymbol, metadata, maxFont, docElements, cleanedElements, pageImages>>

(* download of usePdfConversion (lines 114-139): the file is generated or  *)
(* the generator throws                                                    *)
Download(generated) ==
  /\ pc \in {"done", "after"}
  /\ request.hook = "pdf"
  /\ Len(state.result) > 0 /\ Len(state.fileName) > 0
  /\ state' = IF generated THEN [state EXCEPT !.status = "complete"]
              ELSE [state EXCEPT !.status = "error", !.error = <<OtherMessage>>]
  /\ pc' = "after"
  /\ UNCHANGED <<textItems, colBoundaries, gridRows, colValues, repeat, tables, pageRows, rowCells, header, colType, structure, request, wordState, pageRegions, currencySymbol, metadata, maxFont, docElements, cleanedElements, pageImages>>

SetOutputFormat(format) ==
  /\ pc \in {"done", "after"}
  /\ request.hook = "pdf"
  /\ state' = [state EXCEPT !.outputFormat = format]
  /\ pc' = "after"
  /\ UNCHANGED <<textItems, colBoundaries, gridRows, colValues, repeat, tables, pageRows, rowCells, header, colType, structure, request, wordState, pageRegions, currencySymbol, metadata, maxFont, docElements, cleanedElements, pageImages>>

(* reset of usePdfConversion (lines 145-148).  It can be called at any     *)
(* time after convert: while convert awaits a step the call in flight is   *)
(* not cancelled and goes on from where it is.                             *)
Reset ==
  /\ pc \in {"reading", "parsing", "extracting", "done", "after"}
  /\ request.hook = "pdf"
  /\ state' = initialState
  /\ pc' = IF pc \in {"done", "after"} THEN "after" ELSE pc
  /\ UNCHANGED <<textItems, colBoundaries, gridRows, colValues, repeat, tables, pageRows, rowCells, header, colType, structure, request, wordState, pageRegions, currencySymbol, metadata, maxFont, docElements, cleanedElements, pageImages>>

(* convert of useWordConversion up to the first await (lines 196-208) *)
ConvertWord ==
  /\ pc = "input"
  /\ wordState' = [status |-> "reading", progress |-> 5, documentStructure |-> <<>>,
                   error |-> <<>>, fileName |-> <<FileName>>]
  /\ request' = [hook |-> "word", mode |-> "auto", outputFormat |-> "doc", at |-> "awaiting"]
  /\ pc' = "reading"
  /\ UNCHANGED <<textItems, colBoundaries, gridRows, colValues, repeat, tables, pageRows, rowCells, header, colType, structure, state, pageRegions, currencySymbol, metadata, maxFont, docElements, cleanedElements, pageImages>>

WordFileRead ==
  /\ pc = "reading"
  /\ request.hook = "word"
  /\ wordState' = [wordState EXCEPT !.status = "parsing", !.progress = 15]
  /\ pc' = "parsing"
  /\ UNCHANGED <<textItems, colBoundaries, gridRows, colValues, repeat, tables, pageRows, rowCells, header, colType, structure, request, state, pageRegions, currencySymbol, metadata, maxFont, docElements, cleanedElements, pageImages>>

(* extractDocumentStructure resolved and its result was tested (lines      *)
(* 217-225)                                                                *)
WordParsed ==
  /\ pc = "parsing"
  /\ request.hook = "word"
  /\ structure' = extractDocumentStructure(textItems, totalPagesOf(textItems), PageWidth)
  /\ request' = [request EXCEPT !.at = "checked"]
  /\ IF Len(structure'.elements) = 0
     THEN /\ wordState' = wordErrorState(NoContentMessage)
          /\ pc' = "done"
     ELSE /\ wordState' = [wordState EXCEPT !.status = "generating", !.progress = 60]
          /\ pc' = "generating"
  /\ UNCHANGED <<textItems, colBoundaries, gridRows, colValues, repeat, tables, pageRows, rowCells, header, colType, state, pageRegions, currencySymbol, metadata, maxFont, docElements, cleanedElements, pageImages>>

(* generateDocFromStructure resolved (lines 227-237) *)
WordGenerated ==
  /\ pc = "generating"
  /\ request.hook = "word"
  /\ wordState' = [status |-> "complete", progress |-> 100, documentStructure |-> <<structure>>,
                   error |-> <<>>, fileName |-> <<FileName>>]
  /\ pc' = "done"
  /\ UNCHANGED <<textItems, colBoundaries, gridRows, colValues, repeat, tables, pageRows, rowCells, header, colType, structure, request, state, pageRegions, currencySymbol, metadata, maxFont, docElements, cleanedElements, pageImages>>

WordThrew ==
  /\ pc \in {"reading", "parsing", "generating"}
  /\ request.hook = "word"
  /\ wordState' = wordErrorState(OtherMessage)
  /\ request' = [request EXCEPT !.at = "threw"]
  /\ pc' = "done"
  /\ UNCHANGED <<textItems, colBoundaries, gridRows, colValues, repeat, tables, pageRows, rowCells, header, colType, structure, state, pageRegions, currencySymbol, metadata, maxFont, docElements, cleanedElements, pageImages>>

(* reset of useWordConversion (lines 259-262), at any time after convert *)
WordReset ==
  /\ pc \in {"reading", "parsing", "generating", "done", "after"}
  /\ request.hook = "word"
  /\ wordState' = wordInitialState
  /\ pc' = IF pc \in {"done", "after"} THEN "after" ELSE pc
  /\ UNCHANGED <<textItems, colBoundaries, gridRows, colValues, repeat, tables, pageRows, rowCells, header, colType, structure, request, state, pageRegions, currencySymbol, metadata, maxFont, docElements, cleanedElements, pageImages>>

NextConvert ==
  \/ \E kind \in ContentLineKinds, page \in ContentPages : PushContentLine(kind, page)
  \/ \E mode \in {"auto", "tables", "text"}, format \in {"excel", "doc"} : Convert(mode, format)
  \/ FileRead
  \/ PdfParsed
  \/ Extracted
  \/ Threw
  \/ \E generated \in BOOLEAN : Download(generated)
  \/ \E format \in {"excel", "doc"} : SetOutputFormat(format)
  \/ Reset
  \/ ConvertWord
  \/ WordFileRead
  \/ WordParsed
  \/ WordGenerated
  \/ WordThrew
  \/ WordReset

SpecConvert == Init /\ [][NextConvert]_vars

(* neither table extraction nor text extraction finds anything *)
NoTablesNoText(content) ==
  /\ Len(extractTables(parsePdf(content))) = 0
  /\ Len(extractTextByPage(content, totalPagesOf(content))) = 0

NoOutline(content) ==
  Len(extractDocumentStructure(content, totalPagesOf(content), PageWidth).elements) = 0

(* C14: a conversion whose extraction finds no table and no text (no       *)
(* outline element for the Word hook) ends in status error with the 'no    *)
(* extractable content' message and a null result, and status complete     *)
(* never comes with an empty result.                                       *)
C14_NoContentIsAnError ==
  /\ (pc = "done" /\ request.hook = "pdf" /\ request.at = "checked" /\ NoTablesNoText(textItems)) =>
       /\ state.status = "error"
       /\ state.error = <<NoContentMessage>>
       /\ state.result = <<>>
  /\ (pc = "done" /\ request.hook = "word" /\ request.at = "checked" /\ NoOutline(textItems)) =>
       /\ wordState.status = "error"
       /\ wordState.error = <<NoContentMessage>>
       /\ wordState.documentStructure = <<>>
  /\ state.status = "complete" =>
       /\ Len(state.result) = 1
       /\ Len(state.result[1].tables) > 0 \/ Len(state.result[1].textContent) > 0
  /\ wordState.status = "complete" =>
       /\ Len(wordState.documentStructure) = 1
       /\ Len(wordState.documentStructure[1].elements) > 0

(* a PDF of two pages that hold only blank items was converted in auto     *)
(* mode and the conversion ended in the error state                        *)
C14_Witness ==
  /\ pc = "done"
  /\ request.hook = "pdf"
  /\ request.mode = "auto"
  /\ request.at = "checked"
  /\ Len(textItems) >= 2
  /\ totalPagesOf(textItems) = 2
  /\ NoTablesNoText(textItems)
  /\ state.status = "error"
----------------------------------------------------------------------------
(* Properties of groupIntoRows (specification SpecRows)                    *)

(* C15: the rows come top to bottom, each representative y more than       *)
(* ROW_TOLERANCE below the one before, the fragments of a row left to      *)
(* right, and no fragments give no rows.                                   *)
C15_RowsTopDownItemsLeftRight ==
  pc = "done" =>
    /\ \A r \in 1..(Len(pageRows) - 1) : pageRows[r + 1].y - pageRows[r].y > ROW_TOLERANCE
    /\ \A r \in 1..Len(pageRows) :
         \A i \in 1..(Len(pageRows[r].items) - 1) :
           pageRows[r].items[i].x <= pageRows[r].items[i + 1].x
    /\ (Len(textItems) = 0 => Len(pageRows) = 0)
    /\ (Len(textItems) > 0 => Len(pageRows) > 0)

(* two rows; the fragments of one row were handed over right to left *)
C15_Witness ==
  /\ pc = "done"
  /\ Len(pageRows) = 2
  /\ \E i, j \in 1..Len(textItems) :
       /\ i < j
       /\ textItems[i].y > textItems[j].y
       /\ Abs(textItems[i].y - textItems[j].y) <= ROW_TOLERANCE
       /\ \E r \in 1..Len(pageRows) : {textItems[i], textItems[j]} \subseteq Range(pageRows[r].items)

----------------------------------------------------------------------------
(* detectTableRegions over the rows of one page.  The page is built line   *)
(* by line; a line is a row of three aligned cells, a line of prose, a     *)
(* centred number in a large font, or two words with no column gap.        *)

MaxRegionLines == 5

RegionLineKinds == {"grid", "prose", "number", "pair"}

RegionLineFragments(kind, n) ==
  CASE kind = "grid"   -> <<Fragment(<<"a">>, 0, 40, 12), Fragment(<<"b">>, 100, 40, 12),
                            Fragment(<<"c">>, 200, 40, 12)>>
    [] kind = "prose"  -> <<Fragment(<<"p", DigitChars[(n % 10) + 1]>>, 0, 300, 12)>>
    [] kind = "number" -> <<Fragment(<<"2", "0", "2", "4">>, 250, 60, 24)>>
    [] kind = "pair"   -> <<Fragment(<<"d">>, 0, 40, 12), Fragment(<<"e">>, 45, 40, 12)>>

RegionLine(kind, n) ==
  MapSeq(RegionLineFragments(kind, n),
         LAMBDA f : [str |-> f.str, x |-> f.x, y |-> n * LineSpacing, width |-> f.width,
                     height |-> LineHeight, page |-> 1, fontSize |-> f.fontSize])

PushRegionLine(kind) ==
  /\ pc = "input"
  /\ LinesOn(1) < MaxRegionLines
  /\ textItems' = textItems \o RegionLine(kind, LinesOn(1) + 1)
  /\ UNCHANGED <<colBoundaries, gridRows, colValues, repeat, pc, tables, pageRows, rowCells, header, colType, structure, request, state, wordState, pageRegions, currencySymbol, metadata, maxFont, docElements, cleanedElements, pageImages>>

(* const rows = groupIntoRows(pageItems); const regions = detectTableRegions(rows) *)
DetectTableRegions ==
  /\ pc = "input"
  /\ pageRows' = groupIntoRows(textItems)
  /\ pageRegions' = detectTableRegions(groupIntoRows(textItems))
  /\ pc' = "done"
  /\ UNCHANGED <<textItems, colBoundaries, gridRows, colValues, repeat, tables, rowCells, header, colType, structure, request, state, wordState, currencySymbol, metadata, maxFont, docElements, cleanedElements, pageImages>>

NextRegions ==
  \/ \E kind \in RegionLineKinds : PushRegionLine(kind)
  \/ DetectTableRegions

SpecRegions == Init /\ [][NextRegions]_vars

(* the row r of the page is table-like: rowScore >= 0.5 *)
TableLikeRow(r) == IsTableLike(scoreRowAsTableRow(pageRows[r], pageRows, r))

(* the index on the page of a row of a region *)
RowIndexOf(row) == CHOOSE r \in 1..Len(pageRows) : pageRows[r] = row

RegionFirst(k) == RowIndexOf(pageRegions[k].rows[1])

RegionLast(k) == RowIndexOf(pageRegions[k].rows[Len(pageRegions[k].rows)])

(* the last row of the region emitted before region k, 0 at page start *)
PreviousEnd(k) == IF k = 1 THEN 0 ELSE RegionLast(k - 1)

(* the first row of the maximal run of rows that are not table-like and    *)
(* end directly above region k                                             *)
RunAboveStart(k) ==
  CHOOSE s \in (PreviousEnd(k) + 1)..RegionFirst(k) :
    /\ \A j \in s..(RegionFirst(k) - 1) : ~TableLikeRow(j)
    /\ \A t \in (PreviousEnd(k) + 1)..(s - 1) :
         \E j \in t..(RegionFirst(k) - 1) : TableLikeRow(j)

(* C16: the letterhead of every region emitted by detectTableRegions is    *)
(* exactly the maximal run of consecutive rows that are not table-like     *)
(* (score < 0.5) directly above the first row of the region, starting      *)
(* after the last row of the previous emitted region or at page start.     *)
C16_LetterheadIsRunAbove ==
  pc = "done" =>
    \A k \in 1..Len(pageRegions) :
      pageRegions[k].letterheadRows
        = SubSeq(pageRows, RunAboveStart(k), RegionFirst(k) - 1)

(* C16, second half: a letterhead never contains a row from before the     *)
(* previous region closed.                                                 *)
C16_LetterheadAfterPreviousRegion ==
  pc = "done" =>
    \A k \in 1..Len(pageRegions) :
      \A i \in 1..Len(pageRegions[k].letterheadRows) :
        /\ RowIndexOf(pageRegions[k].letterheadRows[i]) > PreviousEnd(k)
        /\ RowIndexOf(pageRegions[k].letterheadRows[i]) < RegionFirst(k)
(* the maximal runs of consecutive table-like rows of the page, as         *)
(* <<first, last>>                                                         *)
MaximalRuns ==
  {run \in (1..Len(pageRows)) \X (1..Len(pageRows)) :
     /\ run[1] <= run[2]
     /\ \A j \in run[1]..run[2] : TableLikeRow(j)
     /\ run[1] = 1 \/ ~TableLikeRow(run[1] - 1)
     /\ run[2] = Len(pageRows) \/ ~TableLikeRow(run[2] + 1)}

RunsOfTableRows == {run \in MaximalRuns : run[2] - run[1] + 1 >= MIN_TABLE_ROWS}

(* C17: detectTableRegions emits exactly one region for every maximal run  *)
(* of at least 2 consecutive table-like rows (score >= 0.5), a run that    *)
(* reaches the last row of the page included, and none for a run of        *)
(* length 1; the rows of a region are exactly the run, in order, and the   *)
(* regions are disjoint and in top-to-bottom order.                        *)
C17_OneRegionPerRun ==
  pc = "done" =>
    /\ Len(pageRegions) = Cardinality(RunsOfTableRows)
    /\ \A k \in 1..Len(pageRegions) :
         /\ <<RegionFirst(k), RegionLast(k)>> \in RunsOfTableRows
         /\ pageRegions[k].rows = SubSeq(pageRows, RegionFirst(k), RegionLast(k))
         /\ pageRegions[k].startY = pageRows[RegionFirst(k)].y
         /\ pageRegions[k].endY = pageRows[RegionLast(k)].y
    /\ \A k \in 1..(Len(pageRegions) - 1) : RegionLast(k) < RegionFirst(k + 1)

(* a page with a run of length 1 and a region that reaches the last row *)
C17_Witness ==
  /\ pc = "done"
  /\ Len(pageRegions) >= 1
  /\ RegionLast(Len(pageRegions)) = Len(pageRows)
  /\ \E run \in MaximalRuns : run[1] = run[2]
(* C18: a row of a single fragment never reaches the table-like threshold  *)
(* (score >= 0.5) in scoreRowAsTableRow, whatever its text, font size or   *)
(* neighbouring rows, so no region contains a single-fragment row; the     *)
(* score is always within [0, 1].                                          *)
C18_SingleFragmentNeverTableLike ==
  pc = "done" =>
    /\ \A r \in 1..Len(pageRows) :
         /\ Len(pageRows[r].items) = 1 => ~TableLikeRow(r)
         /\ scoreRowAsTableRow(pageRows[r], pageRows, r)[2] > 0
         /\ scoreRowAsTableRow(pageRows[r], pageRows, r)[1] >= 0
         /\ scoreRowAsTableRow(pageRows[r], pageRows, r)[1]
              <= scoreRowAsTableRow(pageRows[r], pageRows, r)[2]
    /\ \A k \in 1..Len(pageRegions) :
         \A i \in 1..Len(pageRegions[k].rows) : Len(pageRegions[k].rows[i].items) >= 2

(* a single short fragment between two rows it is fully aligned with, on a *)
(* page that has a region                                                  *)
C18_Witness ==
  /\ pc = "done"
  /\ Len(pageRegions) >= 1
  /\ \E r \in 2..(Len(pageRows) - 1) :
       /\ Len(pageRows[r].items) = 1
       /\ calculateAlignmentWithNeighbors(pageRows[r], <<pageRows[r - 1], pageRows[r + 1]>>)
            = <<2, 2>>
----------------------------------------------------------------------------
(* Properties of assignItemsToColumns                                      *)

IsAscending(b) == \A i, j \in 1..Len(b) : i < j => b[i] < b[j]

(* the columns i with b[i] - 10 <= x < b[i+1] - 10, the last column being  *)
(* unbounded above                                                         *)
IntervalColumns(x, b) ==
  {i \in 1..Len(b) : /\ b[i] - COLUMN_TOLERANCE <= x
                     /\ i = Len(b) \/ x < b[i + 1] - COLUMN_TOLERANCE}

NearestColumns(x, b) ==
  {i \in 1..Len(b) : \A j \in 1..Len(b) : Abs(x - b[i]) <= Abs(x - b[j])}

(* the first interval column, and only when there is none the first of the *)
(* nearest columns                                                         *)
PlacedColumn(x, b) ==
  IF IntervalColumns(x, b) # {}
  THEN CHOOSE i \in IntervalColumns(x, b) : \A j \in IntervalColumns(x, b) : i <= j
  ELSE CHOOSE i \in NearestColumns(x, b) : \A j \in NearestColumns(x, b) : i <= j

(* the texts of the fragments placed in column col, from fragment k on,    *)
(* each preceded by one space                                              *)
RECURSIVE PlacedText(_, _, _, _)
PlacedText(sortedItems, b, col, k) ==
  IF k > Len(sortedItems) THEN <<>>
  ELSE IF PlacedColumn(sortedItems[k].x, b) = col
       THEN <<" ">> \o sortedItems[k].str \o PlacedText(sortedItems, b, col, k + 1)
       ELSE PlacedText(sortedItems, b, col, k + 1)

PlacedCells(items, b) ==
  [col \in 1..Len(b) |->
     Trim(PlacedText(StableSortBy(items, LAMBDA it : it.x), b, col, 1))]

(* C19: for any ascending boundary list b, assignItemsToColumns places a   *)
(* fragment at x in the first column i with b[i] - 10 <= x < b[i+1] - 10   *)
(* (the last column unbounded above), and only when there is no such i in  *)
(* the column whose boundary is nearest to x; the text of a cell is the    *)
(* texts of its fragments in left-to-right order, one space between them.  *)
C19_IntervalThenNearest ==
  (pc = "done" /\ IsAscending(colBoundaries)) =>
    rowCells = PlacedCells(textItems, colBoundaries)

(* the placement rule holds of the lists in which no boundary after the    *)
(* first is 0                                                              *)
C19_PlacementWithoutZeroBoundary ==
  (/\ pc = "done"
   /\ IsAscending(colBoundaries)
   /\ \A i \in 2..Len(colBoundaries) : colBoundaries[i] # 0) =>
    rowCells = PlacedCells(textItems, colBoundaries)
----------------------------------------------------------------------------
(* Properties of detectHeader                                              *)

(* C20: detectHeader returns isHeader = true exactly when its weighted     *)
(* score is >= 2, that is exactly when check (a) fires, or check (b) fires *)
(* together with check (c) or check (d); a grid of fewer than 2 rows is    *)
(* never reported as having a header, and confidence is within [0, 1].     *)
C20_HeaderIffScoreAtLeastTwo ==
  pc = "done" =>
    /\ Len(gridRows) < 2 => (~header.isHeader /\ header.confidence[1] = 0)
    /\ Len(gridRows) >= 2 =>
         /\ header.isHeader = (headerScore(gridRows) >= 4)
         /\ header.isHeader =
              (\/ headerCheck1(gridRows[1], Tail(gridRows))
               \/ /\ headerCheck2(gridRows[1])
                  /\ \/ headerCheck3(gridRows[1], Tail(gridRows))
                     \/ headerCheck4(gridRows[1]))
    /\ header.confidence[2] > 0
    /\ header.confidence[1] >= 0
    /\ header.confidence[1] <= header.confidence[2]

(* a grid whose score is exactly 2: checks (b) and (c) fire, (a) and (d)   *)
(* do not                                                                  *)
C20_Witness ==
  /\ pc = "done"
  /\ Len(gridRows) >= 2
  /\ header.isHeader
  /\ ~headerCheck1(gridRows[1], Tail(gridRows))
  /\ headerCheck2(gridRows[1])
  /\ headerCheck3(gridRows[1], Tail(gridRows))
  /\ ~headerCheck4(gridRows[1])
----------------------------------------------------------------------------
(* Properties of detectColumnType                                          *)

TypePriority == <<"currency", "date", "number", "text">>

(* the number of non-empty values of the column that fall in the category  *)
CategoryCount(values, cat) ==
  Cardinality({i \in 1..Len(nonEmptyValues(values)) :
                 valueCategory(nonEmptyValues(values)[i]) = cat})

(* the category counts at least 50% of the non-empty values *)
ReachesHalf(values, cat) ==
  2 * CategoryCount(values, cat) >= Len(nonEmptyValues(values))

(* C21: detectColumnType returns a category only if the category covers at *)
(* least 50% of the non-empty values, returns "mixed" exactly when no      *)
(* category reaches 50%, resolves a tie by the priority currency, date,    *)
(* number, text, and returns "text" for a column with no non-empty value;  *)
(* the result does not depend on the order of the values.                  *)
C21_TypeIsFirstCategoryReachingHalf ==
  pc = "done" =>
    /\ Len(nonEmptyValues(Repeated(colValues, repeat))) = 0 => colType = "text"
    /\ Len(nonEmptyValues(Repeated(colValues, repeat))) > 0 =>
         /\ colType \in {"currency", "date", "number", "text", "mixed"}
         /\ (colType = "mixed") =
              (\A p \in 1..4 : ~ReachesHalf(Repeated(colValues, repeat), TypePriority[p]))
         /\ \A p \in 1..4 :
              colType = TypePriority[p] =>
                /\ ReachesHalf(Repeated(colValues, repeat), TypePriority[p])
                /\ \A q \in 1..(p - 1) :
                     ~ReachesHalf(Repeated(colValues, repeat), TypePriority[q])
    /\ \A p \in Orderings(Len(colValues)) :
         detectColumnType(Repeated(Permuted(colValues, p), repeat)) = colType

(* a date and a number each count exactly half of the non-empty values *)
C21_Witness ==
  /\ pc = "done"
  /\ colType = "date"
  /\ CategoryCount(Repeated(colValues, repeat), "date") >= 1
  /\ CategoryCount(Repeated(colValues, repeat), "date")
       = CategoryCount(Repeated(colValues, repeat), "number")
  /\ CategoryCount(Repeated(colValues, repeat), "text") = 0
  /\ CategoryCount(Repeated(colValues, repeat), "currency") = 0
----------------------------------------------------------------------------
(* detectCurrencySymbol and analyzeTableMetadata over a grid of two        *)
(* columns, built row by row.                                              *)

MaxCurrencyRows == 3

CurrencyRows ==
  { << <<"$", "1">>, <<"x">> >>,
    << <<"U", "S", "D", "5">>, <<"7">> >>,
    << <<"n", "g", "n", "2">>, EuroGlyph \o <<"4">> >>,
    << <<"=", "N", "=", "3">>, <<"x">> >>,
    << NairaGlyph \o <<"1">>, <<"G", "B", "P">> >>,
    << PoundGlyph \o <<"1">>, <<"e", "u", "r">> >>,
    << <<"x">>, <<"$", "1">> >>,
    << <<"7">>, <<"-", "7">> >> }

PushCurrencyRow(row) ==
  /\ pc = "input"
  /\ Len(gridRows) < MaxCurrencyRows
  /\ gridRows' = Append(gridRows, row)
  /\ UNCHANGED <<textItems, colBoundaries, colValues, repeat, pc, tables, pageRows, rowCells, header, colType, structure, request, state, wordState, pageRegions, currencySymbol, metadata, maxFont, docElements, cleanedElements, pageImages>>

(* the exported detectCurrencySymbol applied to a column of the grid *)
DetectCurrencySymbol(col) ==
  /\ pc = "input"
  /\ colValues' = columnValuesOf(gridRows, col)
  /\ currencySymbol' = detectCurrencySymbol(columnValuesOf(gridRows, col))
  /\ pc' = "done"
  /\ UNCHANGED <<textItems, colBoundaries, gridRows, repeat, tables, pageRows, rowCells, header, colType, structure, request, state, wordState, pageRegions, metadata, maxFont, docElements, cleanedElements, pageImages>>

(* analyzeTableMetadata(cleanedRows, headerInfo.isHeader); cleanedRows is  *)
(* never empty where it is called                                          *)
AnalyzeTableMetadata(hasHeader) ==
  /\ pc = "input"
  /\ Len(gridRows) >= 1
  /\ metadata' = analyzeTableMetadata(gridRows, hasHeader)
  /\ pc' = "done"
  /\ UNCHANGED <<textItems, colBoundaries, gridRows, colValues, repeat, tables, pageRows, rowCells, header, colType, structure, request, state, wordState, pageRegions, currencySymbol, maxFont, docElements, cleanedElements, pageImages>>

NextCurrency ==
  \/ \E row \in CurrencyRows : PushCurrencyRow(row)
  \/ \E col \in 1..2 : DetectCurrencySymbol(col)
  \/ \E hasHeader \in BOOLEAN : AnalyzeTableMetadata(hasHeader)

SpecCurrency == Init /\ [][NextCurrency]_vars

(* the patterns in their order, as written, and the canonical glyph of the *)
(* currency each stands for                                                *)
PatternTexts ==
  <<NairaGlyph, <<"N", "G", "N">>, <<"=", "N", "=">>, <<"$">>, <<"U", "S", "D">>,
    EuroGlyph, <<"E", "U", "R">>, PoundGlyph, <<"G", "B", "P">>>>

CanonicalGlyphs ==
  <<NairaGlyph, NairaGlyph, NairaGlyph, DollarGlyph, DollarGlyph,
    EuroGlyph, EuroGlyph, PoundGlyph, PoundGlyph>>

(* some value matches pattern p; the three-letter codes are matched        *)
(* without regard to case                                                  *)
SomeValueMatches(values, p) ==
  \E v \in 1..Len(values) :
    IF p \in {2, 5, 7, 9} THEN IncludesIgnoreCase(values[v], PatternTexts[p])
    ELSE Includes(values[v], PatternTexts[p])

(* C22: detectCurrencySymbol returns the canonical glyph of the first      *)
(* pattern, in the order naira glyph, NGN, =N=, $, USD, euro glyph, EUR,   *)
(* pound glyph, GBP, that matches at least one value, so the result is one *)
(* of the four canonical glyphs and never a code or marker; it returns     *)
(* null exactly when no value matches any pattern; analyzeTableMetadata    *)
(* records a non-null symbol only for columns typed currency.              *)
C22_CanonicalGlyphOfFirstPattern ==
  pc = "done" =>
    /\ currencySymbol \in {<<>>, NairaGlyph, DollarGlyph, EuroGlyph, PoundGlyph}
    /\ (currencySymbol = <<>>) = (\A p \in 1..9 : ~SomeValueMatches(colValues, p))
    /\ \A p \in 1..9 :
         (SomeValueMatches(colValues, p) /\ \A q \in 1..(p - 1) : ~SomeValueMatches(colValues, q))
           => currencySymbol = CanonicalGlyphs[p]
    /\ Len(metadata.columnCurrencySymbols) = Len(metadata.columnTypes)
    /\ \A col \in 1..Len(metadata.columnCurrencySymbols) :
         /\ metadata.columnCurrencySymbols[col] # <<>> => metadata.columnTypes[col] = "currency"
         /\ metadata.columnCurrencySymbols[col]
              \in {<<>>, NairaGlyph, DollarGlyph, EuroGlyph, PoundGlyph}

(* a column in which the code NGN, in lower case, and the dollar sign both *)
(* occur: the naira glyph is returned                                      *)
C22_Witness ==
  /\ pc = "done"
  /\ currencySymbol = NairaGlyph
  /\ ~SomeValueMatches(colValues, 1)
  /\ SomeValueMatches(colValues, 2)
  /\ SomeValueMatches(colValues, 4)
----------------------------------------------------------------------------
(* classifyLine over one line of text.  The line is built fragment by      *)
(* fragment and grouped by groupIntoLines, as extractDocumentStructure     *)
(* does before it classifies.                                              *)

MaxLineFragments == 2

(* a bullet item, a numbered item, a lettered item and plain text *)
ClassifiedStrs == {<<"U+2022", "x">>, <<"1", ".", "x">>, <<"(", "a", ")">>, <<"x">>}

ClassifiedFontSizes == {10, 13, 16}

ClassifiedFontNames == {<<>>, <<"B", "o", "l", "d">>}

MaxFontSizes == {16, 24}

PushLineFragment(str, size, name) ==
  /\ pc = "input"
  /\ Len(textItems) < MaxLineFragments
  /\ textItems' = Append(textItems,
                         [str |-> str, x |-> 72 + 100 * Len(textItems), y |-> LineSpacing,
                          width |-> 50, height |-> size, page |-> 1, fontName |-> name,
                          fontSize |-> size])
  /\ UNCHANGED <<colBoundaries, gridRows, colValues, repeat, pc, tables, pageRows, rowCells, header, colType, structure, request, state, wordState, pageRegions, currencySymbol, metadata, maxFont, docElements, cleanedElements, pageImages>>

(* const element = classifyLine(line, maxFontSize, pageNum, pageWidth,     *)
(* fontUsage); elements.push(element)                                      *)
ClassifyLine(maxFontSize) ==
  /\ pc = "input"
  /\ Len(textItems) >= 1
  /\ maxFont' = maxFontSize
  /\ docElements' = Append(docElements,
                           classifyLine(groupIntoLines(textItems)[1], maxFontSize, 1, PageWidth))
  /\ pc' = "done"
  /\ UNCHANGED <<textItems, colBoundaries, gridRows, colValues, repeat, tables, pageRows, rowCells, header, colType, structure, request, state, wordState, pageRegions, currencySymbol, metadata, cleanedElements, pageImages>>

NextClassify ==
  \/ \E str \in ClassifiedStrs, size \in ClassifiedFontSizes, name \in ClassifiedFontNames :
       PushLineFragment(str, size, name)
  \/ \E maxFontSize \in MaxFontSizes : ClassifyLine(maxFontSize)

SpecClassify == Init /\ [][NextClassify]_vars

(* the row that was classified: its text, the sum of its font sizes (the   *)
(* average times the number of fragments), its boldness                    *)
RowText == Trim(JoinSpace(MapSeq(textItems, LAMBDA it : it.str)))

RowFontSum == SumSeq(MapSeq(textItems, LAMBDA it : it.fontSize))

RowIsBold == \E i \in 1..Len(textItems) : IsBoldName(textItems[i].fontName)

(* average font size >= c / d *)
RowFontAtLeast(c, d) == d * RowFontSum >= c * Len(textItems)

(* the rules of the cascade, in their order; the last one always holds *)
RowRule(k) ==
  CASE k = 1 -> RowFontAtLeast(9 * maxFont, 10) /\ RowFontAtLeast(TITLE_MIN_FONT_SIZE, 1)
    [] k = 2 -> RowFontAtLeast(HEADING_MIN_FONT_SIZE, 1) /\ RowFontAtLeast(7 * maxFont, 10)
    [] k = 3 -> \/ RowFontAtLeast(SUBHEADING_MIN_FONT_SIZE, 1) /\ RowFontAtLeast(6 * maxFont, 10)
                \/ RowIsBold /\ RowFontAtLeast(10, 1)
    [] k = 4 -> IsBullet(RowText)
    [] k = 5 -> IsNumbered(RowText)
    [] k = 6 -> Len(RowText) = 0
    [] k = 7 -> TRUE

RowKinds == <<"title", "heading", "subheading", "bullet", "numbered", "whitespace", "paragraph">>

(* C23: classifyLine assigns exactly one kind per row by the priority      *)
(* title, heading, subheading, bullet, numbered, whitespace, paragraph: a  *)
(* row that satisfies an earlier rule gets that kind even when it also     *)
(* satisfies a later one, and a row satisfying none is a paragraph.        *)
C23_FirstMatchingRuleWins ==
  pc = "done" =>
    /\ Len(docElements) = 1
    /\ \A k \in 1..7 :
         (RowRule(k) /\ \A j \in 1..(k - 1) : ~RowRule(j)) => docElements[1].type = RowKinds[k]

(* a row whose font size meets the title rule and whose text starts with a *)
(* bullet glyph is a title                                                 *)
C23_Witness ==
  /\ pc = "done"
  /\ RowRule(1)
  /\ RowRule(4)
  /\ docElements[1].type = "title"
----------------------------------------------------------------------------
(* cleanDocumentElements over a sequence of elements, built element by     *)
(* element.                                                                *)

MaxElements == 3

TextElement(type, content, page, indent) ==
  [type |-> type, content |-> content, page |-> page, level |-> 0, indent |-> indent,
   fontSize |-> <<12, 1>>, fontName |-> <<>>, alignment |-> "left", isBold |-> FALSE,
   isItalic |-> FALSE, tableData |-> <<>>]

ImageElement(page) ==
  [type |-> "image",
   content |-> <<"I", "m", "a", "g", "e", " ", "(", "6", "0", "x", "6", "0", ")">>,
   page |-> page, level |-> 0, indent |-> 0,
   fontSize |-> <<0, 1>>, fontName |-> <<>>, alignment |-> "none", isBold |-> FALSE,
   isItalic |-> FALSE, tableData |-> <<>>]

(* paragraphs that differ in their end, indentation and page, an empty     *)
(* whitespace marker, a heading, a bullet whose text was only the glyph, a *)
(* table and an image                                                      *)
ElementAlphabet ==
  { TextElement("paragraph", <<"a">>, 1, 0),
    TextElement("paragraph", <<"b", ".">>, 1, 0),
    TextElement("paragraph", <<"c">>, 1, 1),
    TextElement("paragraph", <<"d">>, 2, 0),
    TextElement("whitespace", <<>>, 1, 0),
    TextElement("heading", <<"H">>, 1, 0),
    TextElement("bullet", <<>>, 1, 0),
    ImageElement(1) }
  \cup Range(tableElementOfRows(<< <<<<"a">>, <<"7">>>>, <<<<"b">>, <<"8">>>> >>, 1))

PushElement(element) ==
  /\ pc = "input"
  /\ Len(docElements) < MaxElements
  /\ docElements' = Append(docElements, element)
  /\ UNCHANGED <<textItems, colBoundaries, gridRows, colValues, repeat, pc, tables, pageRows, rowCells, header, colType, structure, request, state, wordState, pageRegions, currencySymbol, metadata, maxFont, cleanedElements, pageImages>>

(* const cleanedElements = cleanDocumentElements(elements) *)
CleanDocumentElements ==
  /\ pc = "input"
  /\ cleanedElements' = cleanDocumentElements(docElements)
  /\ pc' = "done"
  /\ UNCHANGED <<textItems, colBoundaries, gridRows, colValues, repeat, tables, pageRows, rowCells, header, colType, structure, request, state, wordState, pageRegions, currencySymbol, metadata, maxFont, docElements, pageImages>>

NextClean ==
  \/ \E element \in ElementAlphabet : PushElement(element)
  \/ CleanDocumentElements

SpecClean == Init /\ [][NextClean]_vars

IsEmptyMarker(element) == element.type = "whitespace" /\ IsBlank(element.content)

ContinuesPrevious(elements, i) ==
  /\ i > 1
  /\ elements[i].type = "paragraph"
  /\ elements[i - 1].type = "paragraph"
  /\ elements[i - 1].page = elements[i].page
  /\ elements[i - 1].indent = elements[i].indent
  /\ EndsOpen(elements[i - 1].content)

(* the texts of the paragraphs left when exactly the paragraphs that       *)
(* continue the element before them are merged, joined by one space        *)
RECURSIVE MergedParagraphs(_, _, _)
MergedParagraphs(elements, i, texts) ==
  IF i > Len(elements) THEN texts
  ELSE IF elements[i].type # "paragraph" THEN MergedParagraphs(elements, i + 1, texts)
  ELSE IF ContinuesPrevious(elements, i)
       THEN MergedParagraphs(elements, i + 1,
              [texts EXCEPT ![Len(texts)] = @ \o <<" ">> \o elements[i].content])
       ELSE MergedParagraphs(elements, i + 1, Append(texts, elements[i].content))

ParagraphTexts(elements) ==
  MapSeq(SelectSeq(elements, LAMBDA e : e.type = "paragraph"), LAMBDA e : e.content)

(* C25: cleanDocumentElements merges a paragraph into an earlier paragraph *)
(* only when the two are adjacent in the element sequence, on the same     *)
(* page, of identical indentation, and the earlier one does not end in     *)
(* . : ! ?; whenever those conditions hold the two are merged, the merged  *)
(* content being the two texts joined by one space.                        *)
C25_MergesExactlyAdjacentParagraphs ==
  pc = "done" =>
    ParagraphTexts(cleanedElements) = MergedParagraphs(docElements, 1, <<>>)

(* the same holds of the sequences in which no element has empty content   *)
C25_MergesWithoutEmptyElements ==
  (pc = "done" /\ \A i \in 1..Len(docElements) : ~IsBlank(docElements[i].content)) =>
    ParagraphTexts(cleanedElements) = MergedParagraphs(docElements, 1, <<>>)
IsTableOrImage(element) == element.type \in {"table", "image"}

(* the elements of the output that come from the input elements 1..i: the  *)
(* output of cleaning that prefix, whose length the later elements never   *)
(* reduce                                                                  *)
CleanedPrefixLength(i) == Len(cleanDocumentElements(SubSeq(docElements, 1, i)))

(* C26: cleanDocumentElements emits every table and image element of its   *)
(* input unchanged and in the same relative order, and never merges text   *)
(* into or across one: a paragraph that follows a table or image is never  *)
(* merged into a paragraph that precedes it.                               *)
C26_TablesAndImagesPassThrough ==
  pc = "done" =>
    /\ SelectSeq(cleanedElements, IsTableOrImage) = SelectSeq(docElements, IsTableOrImage)
    /\ \A i \in 1..Len(docElements) :
         IsTableOrImage(docElements[i]) =>
           /\ CleanedPrefixLength(i) = CleanedPrefixLength(i - 1) + 1
           /\ SubSeq(cleanedElements, 1, CleanedPrefixLength(i))
                = cleanDocumentElements(SubSeq(docElements, 1, i))
           /\ cleanedElements[CleanedPrefixLength(i)] = docElements[i]

(* a table between two paragraphs that would otherwise be merged *)
C26_Witness ==
  /\ pc = "done"
  /\ Len(docElements) = 3
  /\ docElements[2].type = "table"
  /\ ContinuesPrevious(<<docElements[1], docElements[3]>>, 2)
  /\ Len(cleanedElements) = 3
(* what the claim compares of an element *)
ElementView(element) ==
  [type |-> element.type, page |-> element.page, indent |-> element.indent,
   content |-> element.content]

(* C29: cleanDocumentElements is idempotent: applying it to its own output *)
(* returns the same sequence of elements (same kinds, pages, indentation   *)
(* and contents).                                                          *)
C29_CleanIsIdempotent ==
  pc = "done" =>
    MapSeq(cleanDocumentElements(cleanedElements), ElementView)
      = MapSeq(cleanedElements, ElementView)

(* an input that the first application changes: both a merge and a drop    *)
C29_Witness ==
  /\ pc = "done"
  /\ Len(cleanedElements) >= 1
  /\ Len(cleanedElements) + 2 = Len(docElements)
  /\ \E i \in 1..Len(cleanedElements) : cleanedElements[i].content \notin
       {docElements[j].content : j \in 1..Len(docElements)}
----------------------------------------------------------------------------
(* extractDocumentStructure on a document of two pages with images.  The   *)
(* decoder lists the lines of a page in any order; every fragment carries  *)
(* the number of its line, counted from the top of the page.               *)

MaxStructureLines == 3

MaxImages == 1

(* <<page, line>>: three lines on page 1, one on page 2 *)
StructureSlots == {<<1, 1>>, <<1, 2>>, <<1, 3>>, <<2, 1>>}

StructureLineKinds == {"text", "sentence", "columns"}

(* a line of text without and with a full stop, and a row of two cells;    *)
(* the lines are set in 10pt, which no heading rule takes                  *)
StructureFragments(kind, n) ==
  CASE kind = "text"     -> <<[str |-> <<"p", DigitChars[n + 1]>>, x |-> 72, width |-> 300]>>
    [] kind = "sentence" -> <<[str |-> <<"s", DigitChars[n + 1], ".">>, x |-> 72, width |-> 300]>>
    [] kind = "columns"  -> <<[str |-> <<"a", DigitChars[n + 1]>>, x |-> 72, width |-> 50],
                              [str |-> <<"b", DigitChars[n + 1]>>, x |-> 400, width |-> 50]>>

StructureLine(kind, slot) ==
  MapSeq(StructureFragments(kind, slot[2]),
         LAMBDA f : [str |-> f.str, x |-> f.x, y |-> slot[2] * LineSpacing, width |-> f.width,
                     height |-> 10, page |-> slot[1], fontName |-> <<>>,
                     fontSize |-> 10])

SlotsUsed == {<<textItems[i].page, textItems[i].y \div LineSpacing>> : i \in 1..Len(textItems)}

PushStructureLine(kind, slot) ==
  /\ pc = "input"
  /\ Cardinality(SlotsUsed) < MaxStructureLines
  /\ slot \notin SlotsUsed
  /\ textItems' = textItems \o StructureLine(kind, slot)
  /\ UNCHANGED <<colBoundaries, gridRows, colValues, repeat, pc, tables, pageRows, rowCells, header, colType, structure, request, state, wordState, pageRegions, currencySymbol, metadata, maxFont, docElements, cleanedElements, pageImages>>

(* an image that extractImagesFromPage finds on the page *)
PushImage(page) ==
  /\ pc = "input"
  /\ Len(pageImages) < MaxImages
  /\ pageImages' = Append(pageImages, ImageElement(page))
  /\ UNCHANGED <<textItems, colBoundaries, gridRows, colValues, repeat, pc, tables, pageRows, rowCells, header, colType, structure, request, state, wordState, pageRegions, currencySymbol, metadata, maxFont, docElements, cleanedElements>>

(* the second pass with the images of each page pushed after its lines     *)
emittedElements(items, images, totalPages, pageWidth) ==
  ConcatAll([pageNum \in 1..totalPages |->
               pageElements(items, maxFontSizeOf(items), pageNum, pageWidth)
               \o SelectSeq(images, LAMBDA image : image.page = pageNum)])

ExtractDocumentStructure ==
  /\ pc = "input"
  /\ maxFont' = maxFontSizeOf(textItems)
  /\ docElements' = emittedElements(textItems, pageImages, 2, PageWidth)
  /\ cleanedElements' = cleanDocumentElements(emittedElements(textItems, pageImages, 2, PageWidth))
  /\ structure' = [title |-> documentTitle(textItems, 2, PageWidth),
                   elements |-> cleanDocumentElements(
                                  emittedElements(textItems, pageImages, 2, PageWidth)),
                   pages |-> 2]
  /\ pc' = "done"
  /\ UNCHANGED <<textItems, colBoundaries, gridRows, colValues, repeat, tables, pageRows, rowCells, header, colType, request, state, wordState, pageRegions, currencySymbol, metadata, pageImages>>

NextStructure ==
  \/ \E kind \in StructureLineKinds, slot \in StructureSlots : PushStructureLine(kind, slot)
  \/ \E page \in 1..2 : PushImage(page)
  \/ ExtractDocumentStructure

SpecStructure == Init /\ [][NextStructure]_vars

(* the line numbers that the text of an element carries, in order *)
LineNumbersIn(content) ==
  MapSeq(SelectSeq(content, LAMBDA c : c \in Digits),
         LAMBDA c : CHOOSE n \in 0..9 : DigitChars[n + 1] = c)

(* the line numbers carried by the text elements of a page, in the order   *)
(* of the element list                                                     *)
PageLineNumbers(elements, page) ==
  ConcatAll(MapSeq(SelectSeq(elements, LAMBDA e : e.page = page /\ ~IsTableOrImage(e)),
                   LAMBDA e : LineNumbersIn(e.content)))

IsNonDecreasing(numbers) ==
  \A i, j \in 1..Len(numbers) : i < j => numbers[i] <= numbers[j]

IsPrefix(s, t) == Len(s) <= Len(t) /\ SubSeq(t, 1, Len(s)) = s

(* the retained element is the emitted one, possibly grown by merges *)
DerivedFrom(retained, emitted) ==
  /\ retained.type = emitted.type
  /\ retained.page = emitted.page
  /\ IsPrefix(emitted.content, retained.content)
  /\ IsTableOrImage(emitted) => retained = emitted

(* the retained elements from k on derive, in order, from emitted elements *)
(* from i on                                                               *)
RECURSIVE KeepsOrder(_, _, _, _)
KeepsOrder(retained, k, emitted, i) ==
  IF k > Len(retained) THEN TRUE
  ELSE IF i > Len(emitted) THEN FALSE
  ELSE IF DerivedFrom(retained[k], emitted[i])
       THEN KeepsOrder(retained, k + 1, emitted, i + 1)
       ELSE KeepsOrder(retained, k, emitted, i + 1)

(* C27: in the DocumentStructure returned by extractDocumentStructure the  *)
(* page numbers are non-decreasing along the element list, the elements    *)
(* derived from the text lines of one page appear in top-to-bottom line    *)
(* order, and the clean-up keeps the retained elements in the relative     *)
(* order in which they were emitted.                                       *)
C27_ReadingOrder ==
  pc = "done" =>
    /\ IsNonDecreasing(MapSeq(structure.elements, LAMBDA e : e.page))
    /\ \A page \in 1..2 :
         /\ IsNonDecreasing(PageLineNumbers(docElements, page))
         /\ IsNonDecreasing(PageLineNumbers(structure.elements, page))
         /\ PageLineNumbers(structure.elements, page) = PageLineNumbers(docElements, page)
    /\ KeepsOrder(structure.elements, 1, docElements, 1)

(* the decoder listed a lower line of page 1 before a higher one, page 1   *)
(* has an image, page 2 has a line, and the clean-up merged two paragraphs *)
C27_Witness ==
  /\ pc = "done"
  /\ \E i, j \in 1..Len(textItems) :
       i < j /\ textItems[i].page = 1 /\ textItems[j].page = 1 /\ textItems[i].y > textItems[j].y
  /\ \E i \in 1..Len(pageImages) : pageImages[i].page = 1
  /\ \E i \in 1..Len(textItems) : textItems[i].page = 2
  /\ Len(structure.elements) < Len(docElements)
----------------------------------------------------------------------------
(* The region path of extractTables on one page (lines 56-69): the rows of *)
(* the page, its regions, and for the first region the boundaries and the  *)
(* grid rows of line 68.  Every fragment has a text of its own.            *)

MaxPlacedItems == 4

PlacementXs == {-50, 0, 8, 60}

PlacementYs == {0, 20}

PlacementStr(x) ==
  CASE x = -50 -> <<"a">> [] x = 0 -> <<"b">> [] x = 8 -> <<"c">> [] OTHER -> <<"d">>

PlacedItem(x, y) ==
  [str |-> PlacementStr(x), x |-> x, y |-> y, width |-> 5,
   height |-> LineHeight, page |-> 1, fontSize |-> DEFAULT_FONT_SIZE]

PushPlacedItem(x, y) ==
  /\ pc = "input"
  /\ Len(textItems) < MaxPlacedItems
  /\ \A i \in 1..Len(textItems) : textItems[i].x # x \/ textItems[i].y # y
  /\ textItems' = Append(textItems, PlacedItem(x, y))
  /\ UNCHANGED <<colBoundaries, gridRows, colValues, repeat, pc, tables, pageRows, rowCells, header, colType, structure, request, state, wordState, pageRegions, currencySymbol, metadata, maxFont, docElements, cleanedElements, pageImages>>

(* lines 64-68 for one region *)
regionBoundaries(regions) ==
  IF Len(regions) >= 1 THEN detectColumnBoundariesForRegion(regions[1].rows) ELSE <<>>

regionTableRows(regions) ==
  IF Len(regionBoundaries(regions)) >= MIN_TABLE_COLS
  THEN MapSeq(regions[1].rows,
              LAMBDA row : assignItemsToColumns(row.items, regionBoundaries(regions)))
  ELSE <<>>

BuildRegionGrid ==
  /\ pc = "input"
  /\ pageRows' = groupIntoRows(textItems)
  /\ pageRegions' = detectTableRegions(groupIntoRows(textItems))
  /\ colBoundaries' = regionBoundaries(detectTableRegions(groupIntoRows(textItems)))
  /\ gridRows' = regionTableRows(detectTableRegions(groupIntoRows(textItems)))
  /\ pc' = "done"
  /\ UNCHANGED <<textItems, colValues, repeat, tables, rowCells, header, colType, structure, request, state, wordState, currencySymbol, metadata, maxFont, docElements, cleanedElements, pageImages>>

NextPlacement ==
  \/ \E x \in PlacementXs, y \in PlacementYs : PushPlacedItem(x, y)
  \/ BuildRegionGrid

SpecPlacement == Init /\ [][NextPlacement]_vars

(* the column whose boundary is the minimum of the cluster holding x: the  *)
(* last boundary not above x (0 when every boundary is above x)            *)
OwnClusterColumn(x, b) ==
  IF \E i \in 1..Len(b) : b[i] <= x
  THEN CHOOSE i \in 1..Len(b) : b[i] <= x /\ \A j \in 1..Len(b) : b[j] <= x => j <= i
  ELSE 0

(* the texts of the fragments of the row whose own column is col, from     *)
(* left to right, one space between them                                   *)
OwnClusterCell(items, b, col) ==
  JoinSpace(MapSeq(SelectSeq(StableSortBy(items, LAMBDA it : it.x),
                             LAMBDA it : OwnClusterColumn(it.x, b) = col),
                   LAMBDA it : it.str))

(* C28: in the region path of extractTables every fragment of a region row *)
(* is placed in the column whose boundary is the minimum of the x-cluster  *)
(* that contains the fragment's own x: the nearest-boundary fallback is    *)
(* never taken and no fragment's text is dropped from the grid row.        *)
C28_FragmentInOwnClusterColumn ==
  (pc = "done" /\ Len(gridRows) > 0) =>
    \A r \in 1..Len(gridRows) :
      /\ \A k \in 1..Len(pageRegions[1].rows[r].items) :
           exactColumn(pageRegions[1].rows[r].items[k].x, colBoundaries) # 0
      /\ gridRows[r] = [col \in 1..Len(colBoundaries) |->
                          OwnClusterCell(pageRegions[1].rows[r].items, colBoundaries, col)]

(* the same of the regions in which no boundary after the first is 0 *)
C28_OwnClusterColumnWithoutZeroBoundary ==
  (/\ pc = "done"
   /\ Len(gridRows) > 0
   /\ \A i \in 2..Len(colBoundaries) : colBoundaries[i] # 0) =>
    \A r \in 1..Len(gridRows) :
      /\ \A k \in 1..Len(pageRegions[1].rows[r].items) :
           exactColumn(pageRegions[1].rows[r].items[k].x, colBoundaries) # 0
      /\ gridRows[r] = [col \in 1..Len(colBoundaries) |->
                          OwnClusterCell(pageRegions[1].rows[r].items, colBoundaries, col)]
----------------------------------------------------------------------------
(* reset while a conversion is in flight                                   *)

(* the state of the hook is the initial one but for outputFormat, which    *)
(* setOutputFormat may change                                              *)
IsInitialState(s) ==
  /\ s.status = "idle"
  /\ s.progress = 0
  /\ s.result = <<>>
  /\ s.error = <<>>
  /\ s.fileName = <<>>

(* convert was called: every state convert sets has a file name, so after  *)
(* convert the state of the hook is initial only by a call of reset        *)
WasReset == pc # "input" /\ request.hook = "pdf" /\ IsInitialState(state)

WordWasReset == pc # "input" /\ request.hook = "word" /\ wordState = wordInitialState

(* C30: in usePdfConversion and useWordConversion, once reset() has been   *)
(* called the state stays equal to the initial state (status idle,         *)
(* progress 0, no result, no error, no file name) until convert() is next  *)
(* called, including when a convert() call that started before the reset   *)
(* is still awaiting and resumes afterwards.                               *)
C30_ResetStateStays ==
  [][/\ WasReset => IsInitialState(state')
     /\ WordWasReset => wordState' = wordInitialState]_vars

(* the state stays initial after a reset that comes when no conversion is  *)
(* in flight                                                               *)
C30_ResetAfterConversionStays ==
  [][/\ (WasReset /\ pc = "after") => IsInitialState(state')
     /\ (WordWasReset /\ pc = "after") => wordState' = wordInitialState]_vars
====
